---- MODULE Spec2Model ----
\* A model of the Levanter trainer core: the hook registry, the training loop
\* (Trainer.training_steps / Trainer.train), one optimisation step
\* (Trainer._train_step / take_opt_step), state initialisation
\* (Trainer.initial_state), the microbatch accumulator (microbatched), the
\* distributed bootstrap (LevanterSlurmCluster, auto_ray_cluster) and the
\* loading of levanter.doremi and levanter.main.train_lm.
EXTENDS Integers, Sequences, FiniteSets, TLC

VARIABLES
    pc,          \* position of the running call
    err,         \* name of the exception that ended the call, "" if none
    config,      \* TrainerConfig: train_batch_size B, data_axis_size d, per_device_parallelism p
    num_train_steps,
    hooks,       \* TrainerHooks.hooks: the registered periods, in registration order
    run_hooks_arg, \* the run_hooks argument of train / training_steps
    second_order,  \* the optimizer is a SecondOrderTransformation
    opt_calls,   \* the calls the last take_opt_step made to the optimizer, with their params
    state,       \* the TrainerState held by the training_steps generator
    state0,      \* the TrainerState handed to train
    info,        \* the StepInfo variable of the loop ([bound |-> FALSE] while unassigned)
    result,      \* what train returned
    iter_pos,    \* number of batches pulled from iter(train_loader)
    loader_len,  \* number of batches the loader can supply
    example,     \* the batch pulled last
    log,         \* the observable events, in order
    args,        \* the arguments and configuration of an initial_state call
    store,       \* the checkpoint store: a trainer-state checkpoint and a model checkpoint
    partial,     \* the local variable `state` of initial_state before the fill-in pass
    mb,          \* a microbatched call: its arguments, accumulator and invocations
    environ,     \* os.environ and what the jax runtime reports to this process
    out,         \* what the bootstrap call returned
    _already_initialized, \* the module flag of levanter.distributed
    ray_calls,   \* the calls of auto_ray_cluster so far, each with what it ran
    doremi       \* estimate_mixture_weights: the number of data sources it is called with

train_vars == <<pc, err, config, num_train_steps, hooks, run_hooks_arg, second_order, opt_calls,
                state, state0, info, result, iter_pos, loader_len, example, log>>

train_vars_but_pc_err == <<config, num_train_steps, hooks, run_hooks_arg, second_order, opt_calls,
                           state, state0, info, result, iter_pos, loader_len, example, log>>

other_vars == <<args, store, partial, mb, doremi>>

process_vars == <<environ, out, _already_initialized, ray_calls>>

vars == <<train_vars, other_vars, process_vars>>

-----------------------------------------------------------------------------
\* Bounds of the model.
MaxTrainSteps == 10
MaxStart == 1
MaxHooks == 3
MaxLateHooks == 1
MaxLateStep == 1
NumLeaves == 2
MaxBatch == 4
MaxDataAxis == 2
ShortLoader == 2
MaxStepRun == 3

\* TrainerConfig.steps_per_eval, the period of the evaluation hook.
StepsPerEval == 1000

Leaves == 1..NumLeaves
Periods == {1, 5, StepsPerEval}
TrainStepChoices == (0..3) \cup {MaxTrainSteps}

\* Optional values: a PyTree leaf that may be None.
NoneV == [some |-> FALSE, v |-> 0]
Some(x) == [some |-> TRUE, v |-> x]

-----------------------------------------------------------------------------
\* TrainerConfig

\* TrainerConfig.microbatch_size
microbatch_size(c) == c.p * c.d

\* The configurations _validate_and_set_defaults accepts.
ValidConfigs ==
    {c \in [B : 1..MaxBatch, d : 1..MaxDataAxis, p : 1..MaxBatch] :
        c.B % (c.p * c.d) = 0}

\* The configurations the training runs of the model draw from: the largest
\* batch, per_device_parallelism either 1 or the inferred default B // d.
TrainConfigs ==
    {c \in ValidConfigs : c.B = MaxBatch /\ c.p \in {1, c.B \div c.d}}

-----------------------------------------------------------------------------
\* Mutant: the wrap without its divisibility assertion.
microbatched_wrap_unchecked(batch_size, per_device_parallelism, data_axis_size) ==
    IF data_axis_size = 0 \/ per_device_parallelism < 0
    THEN [err |-> "ValueError", microbatch_size |-> 0, num_micro_steps |-> 0]
    ELSE IF data_axis_size * per_device_parallelism = 0
    THEN [err |-> "ZeroDivisionError", microbatch_size |-> 0, num_micro_steps |-> 0]
    ELSE [err |-> "", microbatch_size |-> data_axis_size * per_device_parallelism,
          num_micro_steps |-> batch_size \div (data_axis_size * per_device_parallelism)]

\* Microbatch accumulator, the part evaluated when microbatched wraps a function.
\* data_axis_size = 0 stands for physical_axis_size returning None.
microbatched_wrap(batch_size, per_device_parallelism, data_axis_size) ==
    IF data_axis_size = 0
    THEN [err |-> "ValueError", microbatch_size |-> 0, num_micro_steps |-> 0]
    ELSE IF per_device_parallelism < 0
    THEN [err |-> "ValueError", microbatch_size |-> 0, num_micro_steps |-> 0]
    ELSE IF data_axis_size * per_device_parallelism = 0
    THEN [err |-> "ZeroDivisionError", microbatch_size |-> 0, num_micro_steps |-> 0]
    ELSE LET mbs == data_axis_size * per_device_parallelism
             n == batch_size \div mbs
         IN  IF n * mbs # batch_size
             THEN [err |-> "AssertionError", microbatch_size |-> mbs, num_micro_steps |-> n]
             ELSE [err |-> "", microbatch_size |-> mbs, num_micro_steps |-> n]

-----------------------------------------------------------------------------
\* TrainerState and one optimisation step

\* jax.random.split(key): the two children of a key.
split(key) == <<2 * key + 1, 2 * key + 2>>

\* eqx.filter(tree, is_trainable): keep the leaves the mask selects.
filter(tree, mask) == [l \in Leaves |-> IF mask[l] THEN tree[l] ELSE NoneV]

\* eqx.apply_updates(model, updates): add the update where there is one.
apply_updates(model, updates) ==
    [l \in Leaves |->
        IF updates[l].some /\ model[l].some
        THEN Some(model[l].v + updates[l].v) ELSE model[l]]

\* The gradient of the loss on a batch: one value per differentiable leaf of
\* the model handed to eqx.filter_value_and_grad.
value_and_grad(model, batch) ==
    [l \in Leaves |-> IF model[l].some THEN Some(batch + l) ELSE NoneV]

\* Trainer._compute_gradients_microbatched
compute_gradients_microbatched(c, model, batch) ==
    LET w == microbatched_wrap(c.B, microbatch_size(c), c.d)
    IN  [err |-> w.err, grads |-> value_and_grad(model, batch),
         microbatch_size |-> w.microbatch_size, num_micro_steps |-> w.num_micro_steps]

\* optimizer.init(trainable): one accumulator per trainable leaf, and for a
\* second-order optimizer one curvature estimate per trainable leaf.
optimizer_init(is_second_order, trainable) ==
    [mu |-> [l \in Leaves |-> IF trainable[l].some THEN Some(0) ELSE NoneV],
     h  |-> [l \in Leaves |->
                IF is_second_order /\ trainable[l].some THEN Some(0) ELSE NoneV]]

\* optimizer.update(grads, opt_state, params): descent direction and the new
\* first-order accumulators, for the leaves that have a gradient.
optimizer_update(grads, opt_state, params) ==
    [updates |-> [l \in Leaves |-> IF grads[l].some THEN Some(0 - grads[l].v) ELSE NoneV],
     opt_state |-> [opt_state EXCEPT !.mu =
        [l \in Leaves |->
            IF grads[l].some
            THEN Some((IF opt_state.mu[l].some THEN opt_state.mu[l].v ELSE 0) + grads[l].v)
            ELSE opt_state.mu[l]]]]

\* optimizer.update_hessian(opt_state, obj_fn, model): a new curvature
\* estimate in every entry the optimizer state holds; the optimizer state
\* keeps the structure it was initialized with.
update_hessian(opt_state, model) ==
    [opt_state EXCEPT !.h =
        [l \in Leaves |->
            IF opt_state.h[l].some THEN Some(opt_state.h[l].v + 1) ELSE NoneV]]

\* A call made to the optimizer, with the parameter tree it was handed
OptCall(op, params) == [op |-> op, params |-> params]

\* take_opt_step: optimizer.update on the trainable partition of gradients
\* and model, then, for a SecondOrderTransformation,
\* optimizer.update_hessian(opt_state, obj_fn, model) on the model itself.
take_opt_step(is_second_order, model, opt_state, grads, is_trainable) ==
    LET train_grads == filter(grads, is_trainable)
        trainable_model == filter(model, is_trainable)
        u == optimizer_update(train_grads, opt_state, trainable_model)
        os == IF is_second_order THEN update_hessian(u.opt_state, model) ELSE u.opt_state
    IN  [model |-> apply_updates(model, u.updates), opt_state |-> os,
         calls |-> <<OptCall("update", trainable_model)>>
                     \o (IF is_second_order THEN <<OptCall("update_hessian", model)>>
                         ELSE <<>>)]

\* Trainer._train_step
_train_step(c, is_second_order, st, batch) ==
    LET keys == split(st.training_key)
        g == compute_gradients_microbatched(c, st.model, batch)
        o == take_opt_step(is_second_order, st.model, st.opt_state, g.grads, st.is_trainable)
    IN  IF g.err # ""
        THEN [err |-> g.err, state |-> st, calls |-> <<>>]
        ELSE [err |-> "",
              state |-> [st EXCEPT !.model = o.model,
                                   !.opt_state = o.opt_state,
                                   !.training_key = keys[2],
                                   !.step = st.step + 1],
              calls |-> o.calls]

\* init_optimizer_for_trainables
init_optimizer_for_trainables(is_second_order, model, is_trainable) ==
    optimizer_init(is_second_order, filter(model, is_trainable))

\* Trainer._initialize_state_from_scratch
_initialize_state_from_scratch(is_second_order, model, training_key, is_trainable) ==
    [step |-> 0, model |-> model,
     opt_state |-> init_optimizer_for_trainables(is_second_order, model, is_trainable),
     training_key |-> training_key, is_trainable |-> is_trainable]

\* The model a model_init() call returns; the seed tells one initializer
\* from another.
model_init(seed) == [l \in Leaves |-> Some(10 * l + seed)]

AllTrainable == [l \in Leaves |-> TRUE]
Masks == [Leaves -> BOOLEAN]

-----------------------------------------------------------------------------
\* StepInfo

Unbound ==
    [bound |-> FALSE,
     state |-> _initialize_state_from_scratch(FALSE, model_init(0), 0, AllTrainable)]
StepInfo(st) == [bound |-> TRUE, state |-> st]
\* StepInfo.step
InfoStep(i) == i.state.step - 1

-----------------------------------------------------------------------------
\* TrainerHooks

Event(kind, n, h, forced) == [ev |-> kind, step |-> n, hook |-> h, force |-> forced]

\* Mutant: the period is counted on the next step instead of the completed one.
hook_fires_next_step(completed, every, force) == force \/ (completed + 1) % every = 0

\* The test of TrainerHooks.run_hooks for one hook.
hook_fires(completed, every, force) == force \/ completed % every = 0

\* TrainerHooks.run_hooks: the events of the hooks invoked, in list order.
RECURSIVE run_hooks(_, _, _, _)
run_hooks(hs, k, completed, force) ==
    IF k > Len(hs) THEN <<>>
    ELSE (IF hook_fires(completed, hs[k], force)
          THEN <<Event("hook", completed, k, force)>> ELSE <<>>)
         \o run_hooks(hs, k + 1, completed, force)

\* TrainerHooks.run_hooks(info, force): the call, with the length of the
\* registry at the call, then the hooks it invokes. The for loop walks the
\* live list: the hooks new that invoked hooks register during the walk are
\* appended and reached by the same walk.
run_hooks_call(hs, new, completed, force) ==
    <<Event("run_hooks", completed, Len(hs), force)>>
        \o run_hooks(hs \o new, 1, completed, force)

\* Trainer._add_default_hooks: pbar_logger, log_step_info and
\* checkpointer.on_step, each with every=1.
DefaultHooks == <<1, 1, 1>>

\* The hooks of a registry beyond the default ones, and the hooks registered
\* since train was called. The model registers at most MaxHooks hooks beyond
\* the default ones, at most MaxLateHooks of them after train was called and
\* none once the step counter has passed MaxLateStep.
UserHooks(hs) ==
    IF Len(hs) >= Len(DefaultHooks) /\ SubSeq(hs, 1, Len(DefaultHooks)) = DefaultHooks
    THEN Len(hs) - Len(DefaultHooks) ELSE Len(hs)
LateHooks == IF pc = "setup" THEN 0 ELSE Len(hooks) - log[1].hook

\* TrainerHooks.add_hook(fn, every), or the decorator add_hook(every=...)
\* applied to fn: the hook is appended, whenever it is called (before train,
\* by a hook during a hook run, by a consumer of training_steps between two
\* yields, after the run).
add_hook(every) ==
    /\ UserHooks(hooks) < MaxHooks
    /\ pc = "setup" \/ (LateHooks < MaxLateHooks /\ state.step <= MaxLateStep)
    /\ hooks' = Append(hooks, every)
    /\ UNCHANGED <<pc, err, config, num_train_steps, run_hooks_arg, second_order, opt_calls,
                   state, state0, info, result, iter_pos, loader_len, example, log>>
    /\ UNCHANGED <<other_vars, process_vars>>

\* The hooks registered while run_hooks walks the registry hs, in the order
\* of their registration: only a hook that is invoked can register one.
registered_in_walk(hs, completed, force) ==
    LET late == MaxLateHooks - LateHooks
        user == MaxHooks - UserHooks(hs)
        room == IF state.step > MaxLateStep \/ late < 0 \/ user < 0 THEN 0
                ELSE IF late < user THEN late ELSE user
    IN  IF \E k \in 1..Len(hs) : hook_fires(completed, hs[k], force)
        THEN UNION {[1..m -> Periods] : m \in 0..room}
        ELSE {<<>>}

-----------------------------------------------------------------------------
\* Trainer.train and the Trainer.training_steps generator it drains

\* Mutant: the StepInfo is yielded before its hooks run.
loop_order_hooks_after_yield(cur, rh) ==
    CASE cur = "train_step" -> "yield"
      [] cur = "yield" -> (IF rh THEN "run_hooks" ELSE "while")
      [] OTHER -> "while"

\* The order of one iteration of the while loop of training_steps: what
\* follows train_step, the hook run and the yield.
loop_order(cur, rh) ==
    CASE cur = "train_step" -> (IF rh THEN "run_hooks" ELSE "yield")
      [] cur = "run_hooks" -> "yield"
      [] OTHER -> "while"

\* Mutants: the final hook run is left out, or is not forced.
final_hooks_skipped(hs, new, i) == <<>>
final_hooks_unforced(hs, new, i) == run_hooks_call(hs, new, i.state.step - 1, FALSE)

\* self.run_hooks(info, force=True) at the end of train
final_hooks(hs, new, i) == run_hooks_call(hs, new, InfoStep(i), TRUE)

Raise(e) ==
    /\ pc' = "error"
    /\ err' = e

\* train is called: the generator is created and iter(train_loader) taken.
\* The log opens with the length of the registry at the call.
train_call(rh) ==
    /\ pc = "setup"
    /\ run_hooks_arg' = rh
    /\ pc' = "while"
    /\ log' = <<Event("train", state.step, Len(hooks), FALSE)>>
    /\ UNCHANGED <<err, config, num_train_steps, hooks, second_order, opt_calls,
                   state, state0, info, result, iter_pos, loader_len, example>>
    /\ UNCHANGED <<other_vars, process_vars>>

\* while state.step < self.num_train_steps
while_test ==
    /\ pc = "while"
    /\ pc' = IF state.step < num_train_steps THEN "next_batch" ELSE "after_loop"
    /\ UNCHANGED <<err, config, num_train_steps, hooks, run_hooks_arg, second_order, opt_calls,
                   state, state0, info, result, iter_pos, loader_len, example, log>>
    /\ UNCHANGED <<other_vars, process_vars>>

\* example = next(iter_data); a StopIteration inside a generator surfaces as RuntimeError.
next_batch ==
    /\ pc = "next_batch"
    /\ IF iter_pos < loader_len
       THEN /\ example' = iter_pos
            /\ iter_pos' = iter_pos + 1
            /\ log' = Append(log, Event("batch", state.step, 0, FALSE))
            /\ pc' = "train_step"
            /\ UNCHANGED err
       ELSE /\ Raise("RuntimeError")
            /\ UNCHANGED <<example, iter_pos, log>>
    /\ UNCHANGED <<config, num_train_steps, hooks, run_hooks_arg, second_order, opt_calls,
                   state, state0, info, result, loader_len>>
    /\ UNCHANGED <<other_vars, process_vars>>

\* info = self.train_step(state, example)
train_step ==
    /\ pc = "train_step"
    /\ LET r == _train_step(config, second_order, state, example)
       IN  IF r.err # ""
           THEN /\ Raise(r.err)
                /\ UNCHANGED <<info, log, opt_calls>>
           ELSE /\ info' = StepInfo(r.state)
                /\ opt_calls' = r.calls
                /\ log' = Append(log, Event("train_step", r.state.step - 1, 0, FALSE))
                /\ pc' = loop_order("train_step", run_hooks_arg)
                /\ UNCHANGED err
    /\ UNCHANGED <<config, num_train_steps, hooks, run_hooks_arg, second_order,
                   state, state0, result, iter_pos, loader_len, example>>
    /\ UNCHANGED <<other_vars, process_vars>>

\* if run_hooks: self.run_hooks(info)
loop_hooks ==
    /\ pc = "run_hooks"
    /\ \E new \in registered_in_walk(hooks, InfoStep(info), FALSE) :
          /\ hooks' = hooks \o new
          /\ log' = log \o run_hooks_call(hooks, new, InfoStep(info), FALSE)
    /\ pc' = loop_order("run_hooks", run_hooks_arg)
    /\ UNCHANGED <<err, config, num_train_steps, run_hooks_arg, second_order, opt_calls,
                   state, state0, info, result, iter_pos, loader_len, example>>
    /\ UNCHANGED <<other_vars, process_vars>>

\* state = info.state; yield info  (the body of train's for loop is empty)
yield ==
    /\ pc = "yield"
    /\ state' = info.state
    /\ log' = Append(log, Event("yield", InfoStep(info), 0, FALSE))
    /\ pc' = loop_order("yield", run_hooks_arg)
    /\ UNCHANGED <<err, config, num_train_steps, hooks, run_hooks_arg, second_order, opt_calls,
                   state0, info, result, iter_pos, loader_len, example>>
    /\ UNCHANGED <<other_vars, process_vars>>

\* if run_hooks: self.run_hooks(info, force=True); return info
\* Reading info when no step ran raises UnboundLocalError.
train_return ==
    /\ pc = "after_loop"
    /\ IF ~info.bound
       THEN /\ Raise("UnboundLocalError")
            /\ UNCHANGED <<log, result, hooks>>
       ELSE /\ IF run_hooks_arg
               THEN \E new \in registered_in_walk(hooks, InfoStep(info), TRUE) :
                       /\ hooks' = hooks \o new
                       /\ log' = log \o final_hooks(hooks, new, info)
               ELSE UNCHANGED <<log, hooks>>
            /\ result' = info
            /\ pc' = "done"
            /\ UNCHANGED err
    /\ UNCHANGED <<config, num_train_steps, run_hooks_arg, second_order, opt_calls,
                   state, state0, info, iter_pos, loader_len, example>>
    /\ UNCHANGED <<other_vars, process_vars>>

-----------------------------------------------------------------------------
\* A state with step counter s, as training resumes from it.
StateAt(s, is_second_order, is_trainable) ==
    [_initialize_state_from_scratch(is_second_order, model_init(0), 0, is_trainable)
        EXCEPT !.step = s]

\* The variables of the calls a specification does not make.
NoArgs ==
    [model_given |-> FALSE, model_init_given |-> FALSE, seed |-> 0,
     is_trainable |-> AllTrainable, training_key |-> 0,
     load_checkpoint |-> "None", initialize_from |-> FALSE]
NoPartial == [kind |-> "unbound", st |-> StateAt(0, FALSE, AllTrainable)]
NoStore ==
    [trainer |-> [present |-> FALSE, st |-> StateAt(0, FALSE, AllTrainable)],
     model |-> [present |-> FALSE, model |-> model_init(0)]]
NoMb == [B |-> 0]
NoInitialState == args = NoArgs /\ store = NoStore /\ partial = NoPartial
NoStr == [some |-> FALSE, v |-> <<>>]
NoEnviron ==
    [SLURM_JOB_ID |-> NoStr, SLURM_STEP_NODELIST |-> NoStr, SLURM_JOB_NODELIST |-> NoStr,
     SLURM_NODELIST |-> NoStr, SLURM_STEP_TASKS_PER_NODE |-> NoStr,
     CUDA_VISIBLE_DEVICES |-> NoStr, SLURMD_NODENAME |-> NoStr, SLURM_LOCALID |-> NoStr,
     RAY_ADDRESS |-> NoStr, coordinator_address |-> NoStr,
     local_device_count |-> 0, process_index |-> 0]
NoOut == [some |-> FALSE, v |-> <<>>, unrolled_tasks_per_node |-> <<>>, node_list |-> <<>>]
NoProcess ==
    environ = NoEnviron /\ out = NoOut /\ _already_initialized = FALSE /\ ray_calls = <<>>
NoMicrobatch == mb = NoMb /\ NoProcess
NoDoremi == [k |-> 0]
NoMixture == doremi = NoDoremi

\* A training run: the state train is handed, with the registry the
\* constructor left.
TrainInit(step_choices, hook_lists, order_flags, masks) ==
    /\ pc = "setup"
    /\ err = ""
    /\ config \in TrainConfigs
    /\ num_train_steps \in step_choices
    /\ hooks \in hook_lists
    /\ run_hooks_arg = TRUE
    /\ second_order \in order_flags
    /\ opt_calls = <<>>
    /\ \E s \in 0..MaxStart : \E m \in masks : state = StateAt(s, second_order, m)
    /\ state0 = state
    /\ info = Unbound
    /\ result = Unbound
    /\ iter_pos = 0
    /\ example = 0
    /\ log = <<>>

\* Training runs with every registry of hooks: all leaves trainable, a
\* first-order optimizer. Trainer.__init__ registers the default hooks unless
\* add_default_hooks=False.
Init ==
    /\ NoMixture
    /\ TrainInit(TrainStepChoices, {<<>>, DefaultHooks}, {FALSE}, {AllTrainable})
    /\ loader_len \in {ShortLoader, MaxTrainSteps}
    /\ NoInitialState
    /\ NoMicrobatch

Next ==
    \/ \E every \in Periods : add_hook(every)
    \/ \E rh \in BOOLEAN : train_call(rh)
    \/ while_test
    \/ next_batch
    \/ train_step
    \/ loop_hooks
    \/ yield
    \/ train_return

Spec == Init /\ [][Next]_vars

\* Training runs over every trainability mask and both kinds of optimizer,
\* with hooks registered beforehand.
InitStep ==
    /\ NoMixture
    /\ TrainInit(0..MaxStepRun, {<<>>, <<1>>}, BOOLEAN, Masks)
    /\ loader_len = MaxStepRun
    /\ NoInitialState
    /\ NoMicrobatch

NextStep ==
    \/ \E rh \in BOOLEAN : train_call(rh)
    \/ while_test
    \/ next_batch
    \/ train_step
    \/ loop_hooks
    \/ yield
    \/ train_return

SpecStep == InitStep /\ [][NextStep]_vars

-----------------------------------------------------------------------------
\* Trainer.initial_state

MaxSaveStep == 2

\* _make_saveable_trainer_state: the trainer state without its non-trainable
\* model leaves.
_make_saveable_trainer_state(trainer_state, is_trainable) ==
    [trainer_state EXCEPT !.model = filter(trainer_state.model, is_trainable)]

\* A configuration on which a training step succeeds.
SingleDevice == CHOOSE c \in TrainConfigs : c.d = 1 /\ c.p = 1

\* The state of a run of n steps from scratch, on batches 0 .. n-1.
RECURSIVE trained_state(_, _, _)
trained_state(n, is_second_order, is_trainable) ==
    IF n = 0
    THEN _initialize_state_from_scratch(is_second_order, model_init(0), 0, is_trainable)
    ELSE _train_step(SingleDevice, is_second_order,
                     trained_state(n - 1, is_second_order, is_trainable), n - 1).state

\* What the checkpointer writes for a trainer state.
saved_checkpoint(st) == _make_saveable_trainer_state(st, st.is_trainable)

\* load_checkpoint(template, path): the stored tree, leaf by leaf where the
\* template has a leaf.
load_tree(template, stored) ==
    [l \in Leaves |-> IF template[l].some THEN stored[l] ELSE NoneV]
load_checkpoint(template, stored) ==
    [stored EXCEPT !.model = load_tree(template.model, stored.model),
                   !.opt_state = [mu |-> load_tree(template.opt_state.mu, stored.opt_state.mu),
                                  h |-> load_tree(template.opt_state.h, stored.opt_state.h)]]

\* eqx.combine: the first tree's leaf where it has one, else the second's.
combine(a, b) == [l \in Leaves |-> IF a[l].some THEN a[l] ELSE b[l]]

\* Mutant: eqx.combine(fresh_state, partial_state), the fresh state winning.
combine_state_fresh_wins(p, fresh) == fresh

\* eqx.combine(partial_state, fresh_state) on trainer states; every field
\* other than model leaves and optimizer entries is a leaf the loaded state has.
combine_state(p, fresh) ==
    IF p.kind # "loaded" THEN fresh
    ELSE [step |-> p.st.step,
          model |-> combine(p.st.model, fresh.model),
          opt_state |-> [mu |-> combine(p.st.opt_state.mu, fresh.opt_state.mu),
                         h |-> combine(p.st.opt_state.h, fresh.opt_state.h)],
          training_key |-> p.st.training_key,
          is_trainable |-> p.st.is_trainable]

\* Mutant: only the case of both arguments is rejected.
check_model_args_both_only(model_given, model_init_given) ==
    IF model_given /\ model_init_given THEN "ValueError"
    ELSE IF ~model_given /\ ~model_init_given THEN "AssertionError"
    ELSE ""

\* The argument check that opens initial_state.
check_model_args(model_given, model_init_given) ==
    IF model_given /\ model_init_given THEN "ValueError"
    ELSE IF ~model_given /\ ~model_init_given THEN "ValueError"
    ELSE ""

\* Mutant: a missing checkpoint is never fatal.
not_found_is_fatal_never(do_load_checkpoint) == FALSE

\* except FileNotFoundError: if do_load_checkpoint: raise
not_found_is_fatal(do_load_checkpoint) == do_load_checkpoint = "True"

\* The shape of the state initial_state builds, and of what it loads.
trainer_state_shape ==
    _initialize_state_from_scratch(second_order, model_init(args.seed),
                                   args.training_key, args.is_trainable)
saveable_state_shape == _make_saveable_trainer_state(trainer_state_shape, args.is_trainable)

\* The model the fill-in pass starts from: model_init(), under the model
\* loaded from initialize_from when there is one.
fill_in_model(loaded) ==
    IF loaded THEN combine(load_tree(saveable_state_shape.model, store.model.model),
                           model_init(args.seed))
    ELSE model_init(args.seed)

init_frame == UNCHANGED <<config, num_train_steps, hooks, run_hooks_arg, second_order, opt_calls,
                          state0, info, result, iter_pos, loader_len, example, args, mb, doremi,
                        environ, out, _already_initialized, ray_calls>>

\* The checkpointer has saved the state of an earlier run at step n.
save_checkpoint(n) ==
    /\ pc = "start"
    /\ ~store.trainer.present
    /\ store' = [store EXCEPT !.trainer =
                    [present |-> TRUE,
                     st |-> saved_checkpoint(trained_state(n, second_order, args.is_trainable))]]
    /\ UNCHANGED <<pc, err, state, log, partial>>
    /\ init_frame

\* initial_state is called: the check of model and model_init.
initial_state_call ==
    /\ pc = "start"
    /\ LET e == check_model_args(args.model_given, args.model_init_given)
       IN  IF e # "" THEN Raise(e) ELSE pc' = "load_state" /\ UNCHANGED err
    /\ UNCHANGED <<state, log, partial, store>>
    /\ init_frame

\* if do_load_checkpoint is not False: try load_checkpoint(saveable_state_shape, ...)
load_state ==
    /\ pc = "load_state"
    /\ IF args.load_checkpoint = "False"
       THEN /\ pc' = "load_model"
            /\ UNCHANGED <<err, log, partial>>
       ELSE /\ log' = Append(log, Event("load_state", 0, 0, FALSE))
            /\ IF store.trainer.present
               THEN /\ partial' = [kind |-> "loaded",
                                   st |-> load_checkpoint(saveable_state_shape, store.trainer.st)]
                    /\ pc' = "load_model"
                    /\ UNCHANGED err
               ELSE IF not_found_is_fatal(args.load_checkpoint)
               THEN /\ Raise("FileNotFoundError")
                    /\ UNCHANGED partial
               ELSE /\ partial' = [partial EXCEPT !.kind = "none"]
                    /\ pc' = "load_model"
                    /\ UNCHANGED err
    /\ UNCHANGED <<state, store>>
    /\ init_frame

\* if state is None and initial_model_path is not None: load the model;
\* then the fill-in pass init_state(state, model_init, training_key, is_trainable).
\* Reading state when no load was tried raises UnboundLocalError.
init_state ==
    /\ pc = "load_model"
    /\ IF partial.kind = "unbound"
       THEN /\ Raise("UnboundLocalError")
            /\ UNCHANGED <<state, log>>
       ELSE IF partial.kind = "none" /\ args.initialize_from
       THEN IF ~store.model.present
            THEN /\ Raise("FileNotFoundError")
                 /\ log' = Append(log, Event("load_model", 0, 0, FALSE))
                 /\ UNCHANGED state
            ELSE /\ state' = combine_state(partial,
                                _initialize_state_from_scratch(second_order, fill_in_model(TRUE),
                                    args.training_key, args.is_trainable))
                 /\ log' = log \o <<Event("load_model", 0, 0, FALSE), Event("init", 0, 0, FALSE)>>
                 /\ pc' = "done"
                 /\ UNCHANGED err
       ELSE /\ state' = combine_state(partial,
                            _initialize_state_from_scratch(second_order, fill_in_model(FALSE),
                                args.training_key, args.is_trainable))
            /\ log' = Append(log, Event("init", 0, 0, FALSE))
            /\ pc' = "done"
            /\ UNCHANGED err
    /\ UNCHANGED <<partial, store>>
    /\ init_frame

InitialStateArgs ==
    [model_given : BOOLEAN, model_init_given : BOOLEAN, seed : {0, 1},
     is_trainable : Masks, training_key : {7},
     load_checkpoint : {"None", "True", "False"}, initialize_from : BOOLEAN]

InitInitial ==
    /\ NoMixture
    /\ pc = "start"
    /\ err = ""
    /\ config = SingleDevice
    /\ num_train_steps = 0
    /\ hooks = <<>>
    /\ run_hooks_arg = TRUE
    /\ second_order \in BOOLEAN
    /\ opt_calls = <<>>
    /\ state = StateAt(0, FALSE, AllTrainable)
    /\ state0 = state
    /\ info = Unbound
    /\ result = Unbound
    /\ iter_pos = 0
    /\ loader_len = 0
    /\ example = 0
    /\ log = <<>>
    /\ args \in InitialStateArgs
    /\ \E present \in BOOLEAN :
        store = [NoStore EXCEPT !.model =
                    [present |-> present, model |-> [l \in Leaves |-> Some(100 + l)]]]
    /\ partial = NoPartial
    /\ NoMicrobatch

NextInitial ==
    \/ \E n \in 0..MaxSaveStep : save_checkpoint(n)
    \/ initial_state_call
    \/ load_state
    \/ init_state

SpecInitial == InitInitial /\ [][NextInitial]_vars

-----------------------------------------------------------------------------
\* grad_accum.microbatched

MaxVal == 2

\* Exact fractions, for the results of a function that averages over the batch.
Rat(n, d) == [num |-> n, den |-> d]
RatAdd(a, b) == Rat(a.num * b.den + b.num * a.den, a.den * b.den)
RatDiv(a, k) == Rat(a.num, a.den * k)
RatEq(a, b) == a.num * b.den = b.num * a.den

RECURSIVE SumSeq(_)
SumSeq(xs) == IF xs = <<>> THEN 0 ELSE Head(xs) + SumSeq(Tail(xs))
Squares(xs) == [i \in 1..Len(xs) |-> xs[i] * xs[i]]

\* The wrapped function: a tree of two means over the batch axis.
fn(xs) == [loss |-> Rat(SumSeq(xs), Len(xs)), grad |-> Rat(SumSeq(Squares(xs)), Len(xs))]

\* _zeros_like_tree
zeros_like_tree == [loss |-> Rat(0, 1), grad |-> Rat(0, 1)]

\* eqx.apply_updates(acc, this_r), leaf by leaf
accumulate(acc, this_r) ==
    [loss |-> RatAdd(acc.loss, this_r.loss), grad |-> RatAdd(acc.grad, this_r.grad)]

\* jax.random.split(key, num_micro_steps)
split_n(key, n) == [i \in 1..n |-> n * key + i]

\* key = kwargs.get(patch_in_rng_key, None); if key is not None: split it.
\* One entry per microstep: its key, or None.
split_key(key, n) ==
    IF key.some THEN [i \in 1..n |-> Some(split_n(key.v, n)[i])]
    ELSE [i \in 1..n |-> NoneV]

\* The positional inputs beside the batch: a NamedArray without the batch
\* axis, a scalar, or an unnamed jnp.ndarray.
NoInput == [kind |-> "absent", xs |-> <<>>]

\* _reshape, the function _reshape_for_microbatch maps over the leaves. A
\* NamedArray without the Batch axis and a scalar are returned as they are; an
\* unnamed array is always reshaped to (AccumStep, Microbatch) on its leading
\* axis, which fails unless that axis has num_micro_steps * microbatch_size
\* entries.
_reshape(x, n, m) ==
    IF x.kind = "ndarray"
    THEN IF Len(x.xs) = n * m
         THEN [err |-> "", split |-> TRUE, rows |-> [i \in 1..n |-> SubSeq(x.xs, (i - 1) * m + 1, i * m)]]
         ELSE [err |-> "TypeError", split |-> FALSE, rows |-> <<>>]
    ELSE [err |-> "", split |-> FALSE, rows |-> <<x.xs>>]

\* What hax.fold(loop, AccumStep) makes of a keyword input, which reaches it
\* as the caller gave it (only the positional inputs are reshaped): a
\* NamedArray has no AccumStep axis and a scalar has no axis, so both are
\* handed whole to every microstep; an unnamed array is scanned over its
\* leading axis, which fails unless that axis has num_micro_steps entries.
fold_kwarg(x, n) ==
    IF x.kind = "ndarray"
    THEN IF Len(x.xs) = n
         THEN [err |-> "", split |-> TRUE, rows |-> [i \in 1..n |-> <<x.xs[i]>>]]
         ELSE [err |-> "ValueError", split |-> FALSE, rows |-> <<>>]
    ELSE [err |-> "", split |-> FALSE, rows |-> <<x.xs>>]

\* What microstep i of the fold is handed of an input: its row of the
\* AccumStep axis, or the whole input when it has no such axis.
fold_slice(r, i) == IF r.split THEN r.rows[i] ELSE r.rows[1]

\* Mutant: the batch dealt out to the microbatches in turn.
_reshape_for_microbatch_strided(batch, n, m) ==
    [i \in 1..n |-> [k \in 1..m |-> batch[(k - 1) * n + i]]]

\* _reshape_for_microbatch: (Batch) to (AccumStep, Microbatch), row by row.
_reshape_for_microbatch(batch, n, m) ==
    [i \in 1..n |-> SubSeq(batch, (i - 1) * m + 1, i * m)]

\* Mutant: MEAN divides by the size of a microbatch.
reduce_acc_by_microbatch_size(acc, reduce, n, m) ==
    IF reduce = "MEAN"
    THEN [loss |-> RatDiv(acc.loss, m), grad |-> RatDiv(acc.grad, m)]
    ELSE acc

\* if reduce == ReductionType.MEAN: acc = tree_map(lambda x: x / num_micro_steps, acc)
reduce_acc(acc, reduce, n, m) ==
    IF reduce = "MEAN"
    THEN [loss |-> RatDiv(acc.loss, n), grad |-> RatDiv(acc.grad, n)]
    ELSE acc

mb_frame == UNCHANGED <<config, num_train_steps, hooks, run_hooks_arg, second_order, opt_calls,
                        state, state0, info, result, iter_pos, loader_len, example,
                        args, store, partial, doremi,
                        environ, out, _already_initialized, ray_calls>>

\* microbatched(fn, Batch, per_device_parallelism, ...): the checks made when
\* the function is wrapped.
microbatched ==
    /\ pc = "start"
    /\ LET w == microbatched_wrap(mb.B, mb.p, mb.d)
       IN  IF w.err # ""
           THEN /\ Raise(w.err)
                /\ UNCHANGED mb
           ELSE /\ mb' = [mb EXCEPT !.microbatch_size = w.microbatch_size,
                                    !.num_micro_steps = w.num_micro_steps]
                /\ pc' = "wrapped"
                /\ UNCHANGED err
    /\ UNCHANGED log
    /\ mb_frame

\* wrapped_fn, up to the first microstep of the fold: zero accumulators, one
\* key per microstep, the positional inputs reshaped, the keyword inputs
\* handed to the fold as they are.
wrapped_fn ==
    /\ pc = "wrapped"
    /\ LET r == _reshape(mb.input, mb.num_micro_steps, mb.microbatch_size)
           k == fold_kwarg(mb.kwinput, mb.num_micro_steps)
       IN  IF r.err # ""
           THEN /\ Raise(r.err)
                /\ mb' = [mb EXCEPT !.acc = zeros_like_tree,
                                    !.keys = split_key(mb.key, mb.num_micro_steps)]
           ELSE IF k.err # ""
           THEN /\ Raise(k.err)
                /\ mb' = [mb EXCEPT !.acc = zeros_like_tree,
                                    !.keys = split_key(mb.key, mb.num_micro_steps),
                                    !.micro = _reshape_for_microbatch(mb.batch,
                                                  mb.num_micro_steps, mb.microbatch_size),
                                    !.reshaped = r]
           ELSE /\ mb' = [mb EXCEPT !.acc = zeros_like_tree,
                                    !.keys = split_key(mb.key, mb.num_micro_steps),
                                    !.micro = _reshape_for_microbatch(mb.batch,
                                                  mb.num_micro_steps, mb.microbatch_size),
                                    !.reshaped = r,
                                    !.kwscanned = k,
                                    !.i = 0]
                /\ pc' = "fold"
                /\ UNCHANGED err
    /\ UNCHANGED log
    /\ mb_frame

\* loop(acc, microbatch_and_key): one microstep of the fold.
loop ==
    /\ pc = "fold"
    /\ mb.i < mb.num_micro_steps
    /\ LET i == mb.i + 1
       IN  /\ mb' = [mb EXCEPT !.acc = accumulate(mb.acc, fn(mb.micro[i])),
                               !.i = i,
                               !.calls = Append(mb.calls,
                                   [microbatch |-> mb.micro[i],
                                    input |-> fold_slice(mb.reshaped, i),
                                    kwinput |-> fold_slice(mb.kwscanned, i),
                                    key |-> mb.keys[i]])]
           /\ log' = Append(log, Event("micro", i, 0, FALSE))
    /\ UNCHANGED <<pc, err>>
    /\ mb_frame

\* The end of wrapped_fn: the reduction, and the return.
wrapped_fn_return ==
    /\ pc = "fold"
    /\ mb.i = mb.num_micro_steps
    /\ mb' = [mb EXCEPT !.acc = reduce_acc(mb.acc, mb.reduce, mb.num_micro_steps,
                                           mb.microbatch_size)]
    /\ pc' = "done"
    /\ UNCHANGED <<err, log>>
    /\ mb_frame

\* The arguments of one call of microbatched and of the function it returns,
\* with the locals of wrapped_fn not yet bound.
MbCall(B, d, p, reduce, batch, key, input, kwinput) ==
    [B |-> B, d |-> d, p |-> p, reduce |-> reduce, batch |-> batch, key |-> key,
     input |-> input, kwinput |-> kwinput,
     microbatch_size |-> 0, num_micro_steps |-> 0,
     acc |-> zeros_like_tree, keys |-> <<>>, micro |-> <<>>,
     reshaped |-> _reshape(NoInput, 0, 0), kwscanned |-> fold_kwarg(NoInput, 0),
     calls |-> <<>>, i |-> 0]

\* Everything of a run that is not the microbatched call.
NoTraining ==
    /\ pc = "start"
    /\ err = ""
    /\ config = SingleDevice
    /\ num_train_steps = 0
    /\ hooks = <<>>
    /\ run_hooks_arg = TRUE
    /\ second_order = FALSE
    /\ opt_calls = <<>>
    /\ state = StateAt(0, FALSE, AllTrainable)
    /\ state0 = state
    /\ info = Unbound
    /\ result = Unbound
    /\ iter_pos = 0
    /\ loader_len = 0
    /\ example = 0
    /\ log = <<>>

InitMicrobatched ==
    /\ NoMixture
    /\ pc = "start"
    /\ err = ""
    /\ config = SingleDevice
    /\ num_train_steps = 0
    /\ hooks = <<>>
    /\ run_hooks_arg = TRUE
    /\ second_order = FALSE
    /\ opt_calls = <<>>
    /\ state = StateAt(0, FALSE, AllTrainable)
    /\ state0 = state
    /\ info = Unbound
    /\ result = Unbound
    /\ iter_pos = 0
    /\ loader_len = 0
    /\ example = 0
    /\ log = <<>>
    /\ NoInitialState
    /\ NoProcess
    /\ \E B \in 1..MaxBatch, d \in 0..MaxDataAxis, p \in (-1)..MaxBatch,
          reduce \in {"MEAN", "SUM"} :
        \E batch \in [1..B -> 0..MaxVal] :
            mb = MbCall(B, d, p, reduce, batch, Some(1), NoInput, NoInput)

NextMicrobatched ==
    \/ microbatched
    \/ wrapped_fn
    \/ loop
    \/ wrapped_fn_return

SpecMicrobatched == InitMicrobatched /\ [][NextMicrobatched]_vars

\* Calls that differ in their other inputs and in the key: the batch holds
\* the examples 1 .. B, so that a value names the example it came from.
Examples(B) == [j \in 1..B |-> j]
Inputs ==
    {NoInput, [kind |-> "named", xs |-> <<7>>], [kind |-> "named", xs |-> <<7, 8>>],
     [kind |-> "scalar", xs |-> <<5>>]}
        \cup {[kind |-> "ndarray", xs |-> [j \in 1..L |-> 10 + j]] : L \in 1..MaxBatch}

\* The keyword inputs beside the key: none, a NamedArray without the batch
\* axis, a NamedArray with the batch axis (an entry per example), a scalar,
\* or an unnamed array.
KeywordInputs(B) ==
    {NoInput, [kind |-> "named", xs |-> <<7, 8>>],
     [kind |-> "named_batch", xs |-> [j \in 1..B |-> 20 + j]],
     [kind |-> "scalar", xs |-> <<5>>]}
        \cup {[kind |-> "ndarray", xs |-> [j \in 1..L |-> 30 + j]] : L \in {1, 2, B}}

InitMicrobatchedArgs ==
    /\ NoMixture
    /\ NoTraining
    /\ NoInitialState
    /\ NoProcess
    /\ \E B \in 1..MaxBatch, d \in 1..MaxDataAxis, p \in 0..MaxBatch,
          reduce \in {"MEAN", "SUM"}, key \in {NoneV, Some(0), Some(1)}, input \in Inputs :
            \E kwinput \in KeywordInputs(B) :
                mb = MbCall(B, d, p, reduce, Examples(B), key, input, kwinput)

SpecMicrobatchedArgs == InitMicrobatchedArgs /\ [][NextMicrobatched]_vars

-----------------------------------------------------------------------------
\* Strings, as sequences of one-character strings

Str(x) == [some |-> TRUE, v |-> x]
Digits == <<"0", "1", "2", "3", "4", "5", "6", "7", "8", "9">>

\* The decimal digits outside ASCII are written as tokens, one family of them
\* (ARABIC-INDIC DIGIT ZERO .. NINE) standing for all.
UnicodeDigits == <<"U+0660", "U+0661", "U+0662", "U+0663", "U+0664",
                   "U+0665", "U+0666", "U+0667", "U+0668", "U+0669">>

\* What \d matches and int() reads as a digit: any Unicode decimal digit
IsDigit(c) == \E k \in 1..10 : Digits[k] = c \/ UnicodeDigits[k] = c
DigitVal(c) == (CHOOSE k \in 1..10 : Digits[k] = c \/ UnicodeDigits[k] = c) - 1

\* The blanks int() drops at both ends. Characters without a TLA+ escape are
\* written as tokens. Of the ASCII characters: space, \t, \n, \r, \f and the
\* vertical tab, and no other (the separators U+001C..U+001F are kept, and a
\* text holding one is rejected). Of the characters outside ASCII: every
\* Unicode white space, which int() first rewrites to a space.
AsciiBlanks == {" ", "\t", "\n", "\r", "\f", "U+000B"}
UnicodeBlanks ==
    {"U+0085", "U+00A0", "U+1680", "U+2000", "U+2001", "U+2002", "U+2003", "U+2004",
     "U+2005", "U+2006", "U+2007", "U+2008", "U+2009", "U+200A", "U+2028", "U+2029",
     "U+202F", "U+205F", "U+3000"}
Whitespace == AsciiBlanks \cup UnicodeBlanks

\* The text between the blanks at both ends, blanks being the set ws
RECURSIVE strip_of(_, _)
strip_of(str, ws) ==
    IF str = <<>> THEN str
    ELSE IF str[1] \in ws THEN strip_of(Tail(str), ws)
    ELSE IF str[Len(str)] \in ws THEN strip_of(SubSeq(str, 1, Len(str) - 1), ws)
    ELSE str

\* The literal int() reads, without the blanks around it
strip(str) == strip_of(str, Whitespace)

\* The literal int() reads without its blanks and its sign
unsigned(str) ==
    IF strip(str) # <<>> /\ strip(str)[1] \in {"+", "-"} THEN Tail(strip(str)) ELSE strip(str)

\* int(str) succeeds: blanks, an optional sign, then digits, with single
\* underscores allowed between two digits
IsNumber(str) ==
    /\ unsigned(str) # <<>>
    /\ \A i \in 1..Len(unsigned(str)) :
        \/ IsDigit(unsigned(str)[i])
        \/ /\ unsigned(str)[i] = "_"
           /\ 1 < i /\ i < Len(unsigned(str))
           /\ IsDigit(unsigned(str)[i - 1]) /\ IsDigit(unsigned(str)[i + 1])

\* The value of a string of digits and underscores
RECURSIVE digits_value(_)
digits_value(str) ==
    IF str = <<>> THEN 0
    ELSE IF str[Len(str)] = "_" THEN digits_value(SubSeq(str, 1, Len(str) - 1))
    ELSE 10 * digits_value(SubSeq(str, 1, Len(str) - 1)) + DigitVal(str[Len(str)])

\* int(str), for a string int() accepts
int(str) ==
    IF strip(str)[1] = "-" THEN 0 - digits_value(unsigned(str)) ELSE digits_value(unsigned(str))

\* str(n)
RECURSIVE str_of(_)
str_of(n) ==
    IF n < 0 THEN <<"-">> \o str_of(0 - n)
    ELSE IF n < 10 THEN <<Digits[n + 1]>>
    ELSE Append(str_of(n \div 10), Digits[(n % 10) + 1])

\* a // b and a % b of Python, for b # 0: the quotient is rounded down, the
\* remainder has the sign of b
floordiv(a, b) == IF b > 0 THEN a \div b ELSE (0 - a) \div (0 - b)
mod(a, b) == IF b > 0 THEN a % b ELSE 0 - ((0 - a) % (0 - b))

\* seq[begin:end] of Python, 0-based, negative indices counted from the end
slice_index(i, n) == IF i < 0 THEN (IF i + n < 0 THEN 0 ELSE i + n) ELSE IF i > n THEN n ELSE i
slice(seq, begin, end) ==
    IF slice_index(begin, Len(seq)) >= slice_index(end, Len(seq)) THEN <<>>
    ELSE SubSeq(seq, slice_index(begin, Len(seq)) + 1, slice_index(end, Len(seq)))

\* str.zfill(width)
RECURSIVE zfill(_, _)
zfill(str, width) == IF Len(str) >= width THEN str ELSE zfill(<<"0">> \o str, width)

\* next((i for i, ch in enumerate(str) if ch in delims), otherwise), 0-based
find_first(str, delims, otherwise) ==
    IF \E i \in 1..Len(str) : str[i] \in delims
    THEN (CHOOSE i \in 1..Len(str) :
            str[i] \in delims /\ \A j \in 1..(i - 1) : str[j] \notin delims) - 1
    ELSE otherwise

\* str.split(sep): the pieces between the separators, empty ones included
RECURSIVE str_split(_, _)
str_split(str, sep) ==
    LET k == find_first(str, {sep}, Len(str))
    IN  IF k = Len(str) THEN <<str>>
        ELSE <<SubSeq(str, 1, k)>> \o str_split(SubSeq(str, k + 2, Len(str)), sep)

-----------------------------------------------------------------------------
\* LevanterSlurmCluster

\* _NODE_LIST_CHOICES, in the order they are looked up
_NODE_LIST_CHOICES(e) == <<e.SLURM_STEP_NODELIST, e.SLURM_JOB_NODELIST, e.SLURM_NODELIST>>

\* Mutant: the last of the variables that is set.
_node_list_last(e) ==
    LET c == _NODE_LIST_CHOICES(e)
    IN  IF \A i \in 1..3 : ~c[i].some THEN NoStr
        ELSE c[CHOOSE i \in 1..3 : c[i].some /\ \A j \in (i + 1)..3 : ~c[j].some]

\* LevanterSlurmCluster._node_list: the first of the variables that is set
_node_list(e) ==
    LET c == _NODE_LIST_CHOICES(e)
    IN  IF \A i \in 1..3 : ~c[i].some THEN NoStr
        ELSE c[CHOOSE i \in 1..3 : c[i].some /\ \A j \in 1..(i - 1) : ~c[j].some]

\* _choose_port, on the integer int(id)
_choose_port(id) == (id % (2^12)) + (65535 - (2^12) + 1)

\* LevanterSlurmCluster.get_coordinator_address
coordinator_address(e) ==
    LET node_list == _node_list(e).v
        port == str_of(_choose_port(int(e.SLURM_JOB_ID.v)))
        ind == find_first(node_list, {",", "["}, Len(node_list))
        prefix == SubSeq(node_list, 1, ind)
        suffix == SubSeq(node_list, ind + 2, Len(node_list))
        ind2 == find_first(suffix, {",", "-"}, Len(suffix))
    IN  IF ~e.SLURM_JOB_ID.some THEN [err |-> "KeyError", v |-> <<>>]
        ELSE IF ~IsNumber(e.SLURM_JOB_ID.v) THEN [err |-> "ValueError", v |-> <<>>]
        ELSE IF ~_node_list(e).some THEN [err |-> "ValueError", v |-> <<>>]
        ELSE IF ind = Len(node_list) \/ node_list[ind + 1] = ","
        THEN [err |-> "", v |-> prefix \o <<":">> \o port]
        ELSE [err |-> "", v |-> prefix \o SubSeq(suffix, 1, ind2) \o <<":">> \o port]

\* re.findall(r"(\[.*?\]|[^\[\]]+)", node_list): from left to right, a "["
\* up to the first "]" after it when no newline lies between them (. does not
\* match one), or a longest run without brackets; a bracket that starts
\* neither is skipped.
RECURSIVE findall_parts(_)
findall_parts(str) ==
    IF str = <<>> THEN <<>>
    ELSE IF str[1] = "["
    THEN LET close == find_first(str, {"]", "\n"}, Len(str))
         IN  IF close = Len(str) \/ str[close + 1] = "\n" THEN findall_parts(Tail(str))
             ELSE <<SubSeq(str, 1, close + 1)>>
                    \o findall_parts(SubSeq(str, close + 2, Len(str)))
    ELSE IF str[1] = "]" THEN findall_parts(Tail(str))
    ELSE LET k == find_first(str, {"[", "]"}, Len(str))
         IN  <<SubSeq(str, 1, k)>> \o findall_parts(SubSeq(str, k + 1, Len(str)))

\* part.strip("[]")
RECURSIVE strip_brackets(_)
strip_brackets(str) ==
    IF str = <<>> THEN str
    ELSE IF str[1] \in {"[", "]"} THEN strip_brackets(Tail(str))
    ELSE IF str[Len(str)] \in {"[", "]"} THEN strip_brackets(SubSeq(str, 1, Len(str) - 1))
    ELSE str

\* Mutant: the numbers of a range are written without zero padding.
generate_numbers_unpadded(number_string) ==
    IF Len(str_split(number_string, "-")) = 1 THEN [err |-> "", v |-> <<number_string>>]
    ELSE [err |-> "",
          v |-> [k \in 1..(int(str_split(number_string, "-")[2])
                             - int(str_split(number_string, "-")[1]) + 1) |->
                    str_of(int(str_split(number_string, "-")[1]) + k - 1)]]

\* generate_numbers: [err, v]
generate_numbers(number_string) ==
    LET pieces == str_split(number_string, "-")
    IN  IF Len(pieces) = 1 THEN [err |-> "", v |-> <<number_string>>]
        ELSE IF Len(pieces) # 2 \/ ~IsNumber(pieces[1]) \/ ~IsNumber(pieces[2])
        THEN [err |-> "ValueError", v |-> <<>>]
        ELSE LET start == int(pieces[1])
                 end == int(pieces[2])
             IN  [err |-> "",
                  v |-> [k \in 1..(IF end >= start THEN end - start + 1 ELSE 0) |->
                            zfill(str_of(start + k - 1), Len(pieces[1]))]]

\* itertools.chain.from_iterable(generate_numbers(seq) for seq in number_sequences)
RECURSIVE chain_numbers(_)
chain_numbers(number_sequences) ==
    IF number_sequences = <<>> THEN [err |-> "", v |-> <<>>]
    ELSE LET g == generate_numbers(Head(number_sequences))
             rest == chain_numbers(Tail(number_sequences))
         IN  IF g.err # "" THEN g
             ELSE IF rest.err # "" THEN rest
             ELSE [err |-> "", v |-> g.v \o rest.v]

\* One entry of processed_parts
process_part(part) ==
    IF part[1] = "[" /\ part[Len(part)] = "]"
    THEN chain_numbers(str_split(strip_brackets(part), ","))
    ELSE [err |-> "", v |-> <<part>>]

\* ["".join(c) for c in itertools.product(*processed_parts)]: the last part
\* varies fastest.
RECURSIVE prepend_each(_, _)
prepend_each(heads, tails) ==
    IF heads = <<>> THEN <<>>
    ELSE [k \in 1..Len(tails) |-> Head(heads) \o tails[k]] \o prepend_each(Tail(heads), tails)

RECURSIVE product_join(_)
product_join(parts) ==
    IF parts = <<>> THEN [err |-> "", v |-> << <<>> >>]
    ELSE LET h == process_part(Head(parts))
             t == product_join(Tail(parts))
         IN  IF h.err # "" THEN h
             ELSE IF t.err # "" THEN t
             ELSE [err |-> "", v |-> prepend_each(h.v, t.v)]

\* _square_brace_expand: [err, v]
_square_brace_expand(node_list) == product_join(findall_parts(node_list))

\* The leading digits of a string
RECURSIVE take_digits(_)
take_digits(str) ==
    IF str # <<>> /\ IsDigit(str[1]) THEN <<str[1]>> \o take_digits(Tail(str)) ELSE <<>>

\* re.compile(r"(\d+)\(x(\d+)\)").match(x): the two groups when x starts with
\* digits, "(x", digits, ")".
multi_match(x) ==
    LET g1 == take_digits(x)
        r1 == SubSeq(x, Len(g1) + 1, Len(x))
        r2 == SubSeq(r1, 3, Len(r1))
        g2 == take_digits(r2)
    IN  IF /\ g1 # <<>>
           /\ Len(r1) >= 2 /\ r1[1] = "(" /\ r1[2] = "x"
           /\ g2 # <<>>
           /\ Len(r2) > Len(g2) /\ r2[Len(g2) + 1] = ")"
        THEN [match |-> TRUE, g1 |-> g1, g2 |-> g2]
        ELSE [match |-> FALSE, g1 |-> <<>>, g2 |-> <<>>]

\* Mutant: a repeated token counts once.
unroll_token_once(x) ==
    LET m == multi_match(x)
    IN  IF m.match THEN [err |-> "", v |-> <<int(m.g1)>>]
        ELSE IF ~IsNumber(x) THEN [err |-> "ValueError", v |-> <<>>]
        ELSE [err |-> "", v |-> <<int(x)>>]

\* One token of SLURM_STEP_TASKS_PER_NODE: N(xK) gives K times N, N gives N.
unroll_token(x) ==
    LET m == multi_match(x)
    IN  IF m.match THEN [err |-> "", v |-> [k \in 1..int(m.g2) |-> int(m.g1)]]
        ELSE IF ~IsNumber(x) THEN [err |-> "ValueError", v |-> <<>>]
        ELSE [err |-> "", v |-> <<int(x)>>]

\* for x in os.environ[_TASKS_PER_NODE].split(","): ...
RECURSIVE unroll_tokens(_)
unroll_tokens(tokens) ==
    IF tokens = <<>> THEN [err |-> "", v |-> <<>>]
    ELSE LET h == unroll_token(Head(tokens))
             t == unroll_tokens(Tail(tokens))
         IN  IF h.err # "" THEN h
             ELSE IF t.err # "" THEN [err |-> t.err, v |-> h.v \o t.v]
             ELSE [err |-> "", v |-> h.v \o t.v]

unrolled_tasks_per_node(tasks_per_node) == unroll_tokens(str_split(tasks_per_node, ","))

\* [int(x) for x in os.environ[_VISIBLE_DEVICES].split(",")], or
\* list(range(jax.local_device_count()))
all_visible_devices(e) ==
    IF e.CUDA_VISIBLE_DEVICES.some
    THEN LET xs == str_split(e.CUDA_VISIBLE_DEVICES.v, ",")
         IN  IF \A i \in 1..Len(xs) : IsNumber(xs[i])
             THEN [err |-> "", v |-> [i \in 1..Len(xs) |-> int(xs[i])]]
             ELSE [err |-> "ValueError", v |-> <<>>]
    ELSE [err |-> "", v |-> [i \in 1..e.local_device_count |-> i - 1]]

\* node_list.index(local_node), 0-based; -1 when the name is not an entry
index_of(list, x) ==
    IF \E i \in 1..Len(list) : list[i] = x
    THEN (CHOOSE i \in 1..Len(list) : list[i] = x /\ \A j \in 1..(i - 1) : list[j] # x) - 1
    ELSE -1

\* Mutant: every process takes the first block.
device_block_first(devices, tasks_on_local_node, local_process_id) ==
    slice(devices, 0, floordiv(Len(devices), tasks_on_local_node))

\* all_visible_devices[begin : begin + num_devices_per_local_process]
device_block(devices, tasks_on_local_node, local_process_id) ==
    slice(devices,
          local_process_id * floordiv(Len(devices), tasks_on_local_node),
          local_process_id * floordiv(Len(devices), tasks_on_local_node)
            + floordiv(Len(devices), tasks_on_local_node))

\* What get_local_device_ids_for_process leaves when it raises x
fail(x, u, n) == [err |-> x, v |-> <<>>, unrolled_tasks_per_node |-> u, node_list |-> n]

\* The end of get_local_device_ids_for_process, from the lookup of the local
\* node's task count on
select_devices(e, devices, unrolled, node_list, local_node_index) ==
    IF local_node_index = -1 THEN fail("ValueError", unrolled, node_list)
    ELSE IF local_node_index >= Len(unrolled) THEN fail("IndexError", unrolled, node_list)
    ELSE IF ~e.SLURM_LOCALID.some THEN fail("KeyError", unrolled, node_list)
    ELSE IF ~IsNumber(e.SLURM_LOCALID.v) THEN fail("ValueError", unrolled, node_list)
    ELSE IF unrolled[local_node_index + 1] = 0
    THEN fail("ZeroDivisionError", unrolled, node_list)
    ELSE IF mod(Len(devices), unrolled[local_node_index + 1]) # 0
    THEN fail("ValueError", unrolled, node_list)
    ELSE [err |-> "",
          v |-> device_block(devices, unrolled[local_node_index + 1], int(e.SLURM_LOCALID.v)),
          unrolled_tasks_per_node |-> unrolled, node_list |-> node_list]

\* The body of get_local_device_ids_for_process on the three lists it builds,
\* each an [err, v]
locate_node(e, devices, unrolled, expanded) ==
    IF devices.err # "" THEN fail(devices.err, <<>>, <<>>)
    ELSE IF ~e.SLURM_STEP_TASKS_PER_NODE.some THEN fail("KeyError", <<>>, <<>>)
    ELSE IF unrolled.err # "" THEN fail(unrolled.err, unrolled.v, <<>>)
    ELSE IF ~_node_list(e).some THEN fail("ValueError", unrolled.v, <<>>)
    ELSE IF expanded.err # "" THEN fail(expanded.err, unrolled.v, <<>>)
    ELSE IF ~e.SLURMD_NODENAME.some THEN fail("KeyError", unrolled.v, expanded.v)
    ELSE select_devices(e, devices.v, unrolled.v, expanded.v,
                        index_of(expanded.v, e.SLURMD_NODENAME.v))

\* LevanterSlurmCluster.get_local_device_ids_for_process: the exception or the
\* device ids, with the locals bound by then.
local_device_ids(e) ==
    locate_node(e, all_visible_devices(e),
                unrolled_tasks_per_node(e.SLURM_STEP_TASKS_PER_NODE.v),
                _square_brace_expand(_node_list(e).v))

slurm_frame ==
    UNCHANGED <<train_vars_but_pc_err, other_vars, environ, _already_initialized, ray_calls>>

get_coordinator_address ==
    /\ pc = "start"
    /\ LET r == coordinator_address(environ)
       IN  IF r.err # ""
           THEN Raise(r.err) /\ UNCHANGED out
           ELSE pc' = "done" /\ out' = [NoOut EXCEPT !.some = TRUE, !.v = r.v] /\ UNCHANGED err
    /\ slurm_frame

get_local_device_ids_for_process ==
    /\ pc = "start"
    /\ \E r \in {local_device_ids(environ)} :
          /\ out' = [some |-> r.err = "", v |-> r.v,
                     unrolled_tasks_per_node |-> r.unrolled_tasks_per_node,
                     node_list |-> r.node_list]
          /\ IF r.err # "" THEN Raise(r.err) ELSE pc' = "devices" /\ UNCHANGED err
    /\ slurm_frame

\* The names the scheduler's environment is written with
Node == <<"n", "o", "d", "e">>
Host2 == <<"h", "o", "s", "t", "2">>
Comma == <<",">>
Pad3(n) == zfill(str_of(n), 3)
Bracket(inner) == <<"[">> \o inner \o <<"]">>
Dash(a, b) == a \o <<"-">> \o b

\* The ranges and single numbers the node lists of the model are written with
Ranges == {<<1, 3>>, <<1, 2>>, <<2, 2>>, <<9, 11>>, <<7, 15>>, <<1, 15>>}
Singles == {1, 7}

\* 'node001', 'node001,host2', 'node[001-015],host2', 'node[001,007-015],host2'
\* and what they vary over
CoordinatorNodeLists ==
    {Node \o Pad3(1), Node \o Pad3(1) \o Comma \o Host2}
      \cup {Node \o Bracket(Dash(Pad3(1), Pad3(r[2]))) \o Comma \o Host2 : r \in Ranges}
      \cup {Node \o Bracket(Pad3(1) \o Comma \o Dash(Pad3(r[1]), Pad3(r[2]))) \o Comma \o Host2 :
                r \in Ranges}
OtherNodeLists == {Host2, Host2 \o Comma \o Node \o Pad3(1)}

JobNumbers == {0, 7, 4095, 4096, 123456}
\* The texts of SLURM_JOB_ID with the integers they denote: plain decimals,
\* and forms int() accepts besides (blanks around, a sign, an underscore)
JobIdTexts ==
    {<<str_of(n), n>> : n \in JobNumbers}
        \cup {<<<<" ", "7">>, 7>>, <<<<"-", "1">>, -1>>, <<<<"1", "_", "0">>, 10>>,
              <<<<"U+000B", "7">>, 7>>, <<<<"7", "U+00A0">>, 7>>}
\* A text int() rejects: it drops the blank at the end, and the separator
\* U+001C at the front is no blank to it.
RejectedJobIds == {<<"U+001C", "7", "U+00A0">>}
JobIds == {t[1] : t \in JobIdTexts} \cup RejectedJobIds

\* The environments get_coordinator_address is called in
CoordinatorEnvirons ==
    {[NoEnviron EXCEPT !.SLURM_JOB_ID = Str(id), !.SLURM_STEP_NODELIST = a,
                       !.SLURM_JOB_NODELIST = b, !.SLURM_NODELIST = c] :
        id \in JobIds,
        a \in {NoStr} \cup {Str(x) : x \in CoordinatorNodeLists},
        b \in {NoStr, Str(Node \o Pad3(1)), Str(Host2)},
        c \in {NoStr} \cup {Str(x) : x \in OtherNodeLists}}

\* The node lists, task counts and devices get_local_device_ids_for_process
\* is called with
WidthPad(n, w) == zfill(str_of(n), w)
RangeList(r, w) == Node \o Bracket(Dash(WidthPad(r[1], w), WidthPad(r[2], w)))
RangeAndSingleList(r, c, w) ==
    Node \o Bracket(Dash(WidthPad(r[1], w), WidthPad(r[2], w)) \o Comma \o WidthPad(c, w))
PlainList(names) ==
    IF Len(names) = 1 THEN names[1] ELSE names[1] \o Comma \o names[2]
Widths == {1, 3}
PlainLists ==
    {<<Node \o Pad3(1)>>, <<Node \o Pad3(1), Node \o Pad3(2)>>, <<Host2, Node \o Pad3(7)>>}
DeviceNodeLists ==
    {RangeList(r, w) : r \in Ranges, w \in Widths}
      \cup {RangeAndSingleList(r, c, w) : r \in Ranges, c \in Singles, w \in Widths}
      \cup {PlainList(names) : names \in PlainLists}
NodeNames == {Node \o WidthPad(n, w) : n \in {1, 2, 3, 7, 10}, w \in Widths}

Token(t) ==
    IF t[2] = 0 THEN str_of(t[1]) ELSE str_of(t[1]) \o <<"(", "x">> \o str_of(t[2]) \o <<")">>
RECURSIVE TasksPerNode(_)
TasksPerNode(ts) ==
    IF Len(ts) = 1 THEN Token(ts[1]) ELSE Token(ts[1]) \o Comma \o TasksPerNode(Tail(ts))
\* <<N, K>> is the token N(xK), <<N, 0>> the bare token N
TokenLists ==
    {<< <<1, 2>>, <<3, 0>>, <<4, 3>> >>, << <<2, 0>> >>, << <<2, 3>> >>,
     << <<4, 2>>, <<2, 0>> >>, << <<1, 0>>, <<2, 0>> >>, << <<3, 15>> >>, << <<0, 1>>, <<1, 12>> >>}
MaxLocalId == 3
VisibleDevices ==
    {NoStr, Str(<<"0", ",", "1", ",", "2", ",", "3">>), Str(<<"4", ",", "5">>),
     Str(<<"0", ",", "1", ",", "2">>)}

DeviceEnviron(nodes, name, ts, k, devices) ==
    [NoEnviron EXCEPT !.SLURM_JOB_NODELIST = Str(nodes),
                      !.SLURMD_NODENAME = Str(name),
                      !.SLURM_STEP_TASKS_PER_NODE = Str(TasksPerNode(ts)),
                      !.SLURM_LOCALID = Str(str_of(k)),
                      !.CUDA_VISIBLE_DEVICES = devices,
                      !.local_device_count = 4]

\* Every node list with every node name, and every task count, local id and
\* device list on the nodes of three of the lists.
DeviceEnvirons ==
    {DeviceEnviron(nodes, name, << <<3, 15>> >>, 0, NoStr) :
        nodes \in DeviceNodeLists, name \in NodeNames}
      \cup
    {DeviceEnviron(nodes, Node \o Pad3(n), ts, k, devices) :
        nodes \in {RangeList(<<1, 3>>, 3), PlainList(<<Node \o Pad3(1)>>),
                   PlainList(<<Node \o Pad3(1), Node \o Pad3(2)>>)},
        n \in 1..3, ts \in TokenLists, k \in 0..MaxLocalId, devices \in VisibleDevices}

InitSlurm ==
    /\ NoMixture
    /\ NoTraining
    /\ NoInitialState
    /\ mb = NoMb
    /\ out = NoOut
    /\ _already_initialized = FALSE
    /\ ray_calls = <<>>
    /\ environ \in CoordinatorEnvirons \cup DeviceEnvirons

NextSlurm ==
    \/ get_coordinator_address
    \/ get_local_device_ids_for_process

SpecSlurm == InitSlurm /\ [][NextSlurm]_vars

-----------------------------------------------------------------------------
\* auto_ray_cluster

MaxRayCalls == 3

Colon == <<":">>
Local == <<"l", "o", "c", "a", "l">>

\* Mutant: the coordinator's port is not shifted.
cluster_port_unshifted(port) == _choose_port(port)

\* ray_port = _choose_port(port + 240)
cluster_port(port) == _choose_port(port + 240)

\* _munge_address_port on the pieces of address.split(":"): [err, host, port]
munge_pieces(pieces) ==
    IF Len(pieces) # 2 \/ ~IsNumber(pieces[Len(pieces)])
    THEN [err |-> "ValueError", host |-> <<>>, port |-> 0]
    ELSE [err |-> "", host |-> pieces[1], port |-> int(pieces[2])]

_munge_address_port(address) == munge_pieces(str_split(address, ":"))

\* The address ray.init is given and the start command that goes before it,
\* from a munged coordinator address
address_from_coordinator(m, process_index, start_workers) ==
    IF m.err # "" THEN [err |-> m.err, address |-> <<>>, port |-> 0, start |-> "none"]
    ELSE [err |-> "",
          address |-> m.host \o Colon \o str_of(cluster_port(m.port)),
          port |-> cluster_port(m.port),
          start |-> IF process_index = 0 THEN "ray start --head"
                    ELSE IF start_workers THEN "ray start" ELSE "none"]

\* The address discovery of auto_ray_cluster: the argument, RAY_ADDRESS, the
\* coordinator address of the jax runtime, "local"
discover_address(e, address, start_workers) ==
    IF address.some
    THEN [err |-> "", address |-> address.v, port |-> 0, start |-> "none"]
    ELSE IF e.RAY_ADDRESS.some
    THEN [err |-> "", address |-> e.RAY_ADDRESS.v, port |-> 0, start |-> "none"]
    ELSE IF ~e.coordinator_address.some
    THEN [err |-> "", address |-> Local, port |-> 0, start |-> "none"]
    ELSE address_from_coordinator(_munge_address_port(e.coordinator_address.v),
                                  e.process_index, start_workers)

\* One thing a call ran: the os.system command, ray.init, an atexit
\* registration or the warning
Ran(kind, address, port) == [kind |-> kind, address |-> address, port |-> port]

\* os.system("ray start ...") and, for the head, the atexit handler that stops it
start_cluster(a, ret) ==
    IF a.start = "none" THEN <<>>
    ELSE <<Ran(a.start, a.address, a.port)>>
           \o (IF a.start = "ray start --head" /\ ret = 0
               THEN <<Ran("atexit ray stop", <<>>, 0)>> ELSE <<>>)

\* ray.init(address=address, ...) and the atexit handler that shuts it down
ray_init(a, init_raises) ==
    <<Ran("ray.init", a.address, 0)>>
      \o (IF init_raises THEN <<>> ELSE <<Ran("atexit ray.shutdown", <<>>, 0)>>)

\* What os.system returned to the call: nothing when no command was run
exit_codes(a, ret) == IF a.start = "none" THEN <<>> ELSE <<ret>>

\* Mutant: a failed start command is logged and the call goes on.
startup_ignoring_exit_code(a, ret, init_raises) ==
    IF a.err # "" THEN [ran |-> <<>>, raised |-> a.err, initialized |-> FALSE, exit_codes |-> <<>>]
    ELSE [ran |-> start_cluster(a, ret) \o ray_init(a, init_raises),
          raised |-> IF init_raises THEN "ConnectionError" ELSE "",
          initialized |-> ~init_raises, exit_codes |-> exit_codes(a, ret)]

\* A call of auto_ray_cluster that found the flag unset: what it ran, the
\* exception it ended with, and whether it set the flag
startup(a, ret, init_raises) ==
    IF a.err # "" THEN [ran |-> <<>>, raised |-> a.err, initialized |-> FALSE, exit_codes |-> <<>>]
    ELSE IF a.start # "none" /\ ret # 0
    THEN [ran |-> start_cluster(a, ret), raised |-> "RuntimeError", initialized |-> FALSE,
          exit_codes |-> exit_codes(a, ret)]
    ELSE [ran |-> start_cluster(a, ret) \o ray_init(a, init_raises),
          raised |-> IF init_raises THEN "ConnectionError" ELSE "",
          initialized |-> ~init_raises, exit_codes |-> exit_codes(a, ret)]

\* The record of one call: its arguments, the coordinator address the jax
\* runtime held when it was made, and what it did
RayCall(address, start_workers, r) ==
    [address |-> address, start_workers |-> start_workers, ran |-> r.ran, raised |-> r.raised,
     exit_codes |-> r.exit_codes, coordinator |-> environ.coordinator_address]

ray_frame == UNCHANGED <<train_vars, other_vars, environ, out>>

\* auto_ray_cluster(address, start_workers); ret is what os.system returns and
\* init_raises whether ray.init raises
auto_ray_cluster(address, start_workers, ret, init_raises) ==
    /\ Len(ray_calls) < MaxRayCalls
    /\ IF _already_initialized
       THEN /\ ray_calls' = Append(ray_calls,
                                   RayCall(address, start_workers,
                                           [ran |-> <<Ran("logger.warning", <<>>, 0)>>,
                                            raised |-> "", exit_codes |-> <<>>]))
            /\ UNCHANGED _already_initialized
       ELSE \E r \in {startup(discover_address(environ, address, start_workers),
                              ret, init_raises)} :
               /\ ray_calls' = Append(ray_calls, RayCall(address, start_workers, r))
               /\ _already_initialized' = r.initialized
    /\ ray_frame

ExitCodes == {0, 1}
ExplicitAddresses == {NoStr, Str(<<"h", "e", "a", "d", ":", "6", "3", "7", "9">>)}

auto_ray_cluster_call ==
    \E address \in ExplicitAddresses, start_workers \in BOOLEAN,
       ret \in ExitCodes, init_raises \in BOOLEAN :
        auto_ray_cluster(address, start_workers, ret, init_raises)

\* RayConfig.initialize
RayConfig_initialize ==
    \E address \in ExplicitAddresses, start_workers \in BOOLEAN,
       auto_start_cluster \in BOOLEAN, ret \in ExitCodes, init_raises \in BOOLEAN :
        IF auto_start_cluster
        THEN auto_ray_cluster(address, start_workers, ret, init_raises)
        ELSE UNCHANGED vars

\* The coordinator addresses the jax runtime may know: host and port
Coordinators == {<<Node \o Pad3(1), 62016>>, <<Host2, 61440>>, <<Host2, 65535>>}
CoordinatorAddress(hp) == hp[1] \o Colon \o str_of(hp[2])
MaxProcessIndex == 2

RayEnvirons ==
    {[NoEnviron EXCEPT !.RAY_ADDRESS = ra, !.coordinator_address = ca, !.process_index = i] :
        ra \in {NoStr, Str(Host2 \o Colon \o <<"6", "3", "7", "9">>)},
        ca \in {NoStr, Str(Host2)} \cup {Str(CoordinatorAddress(hp)) : hp \in Coordinators},
        i \in 0..MaxProcessIndex}

InitRay ==
    /\ NoMixture
    /\ NoTraining
    /\ NoInitialState
    /\ mb = NoMb
    /\ out = NoOut
    /\ _already_initialized = FALSE
    /\ ray_calls = <<>>
    /\ environ \in RayEnvirons

\* What DistributedConfig.initialize hands to jax.distributed.initialize as
\* the coordinator address: in a SLURM job the device ids are looked up first
\* and an address the config leaves out is taken from the node list. [err, v]
distributed_address(e, configured) ==
    IF ~e.SLURM_JOB_ID.some THEN [err |-> "", v |-> configured]
    ELSE IF local_device_ids(e).err # "" THEN [err |-> local_device_ids(e).err, v |-> NoStr]
    ELSE IF configured.some THEN [err |-> "", v |-> configured]
    ELSE IF coordinator_address(e).err # ""
    THEN [err |-> coordinator_address(e).err, v |-> NoStr]
    ELSE [err |-> "", v |-> Str(coordinator_address(e).v)]

\* DistributedConfig.initialize, for a config that sets coordinator_address or
\* a process in a SLURM job (_is_distributed): jax.distributed.initialize
\* keeps the address in distributed.global_state, where auto_ray_cluster
\* reads it. A call that raises, as a second call in one process does,
\* changes nothing.
DistributedConfig_initialize(configured) ==
    /\ ~environ.coordinator_address.some
    /\ configured.some \/ environ.SLURM_JOB_ID.some
    /\ \E r \in {distributed_address(environ, configured)} :
          /\ r.err = ""
          /\ environ' = [environ EXCEPT !.coordinator_address = r.v]
    /\ UNCHANGED <<train_vars, other_vars, out, _already_initialized, ray_calls>>

NextRay ==
    \/ auto_ray_cluster_call
    \/ RayConfig_initialize
    \/ \E hp \in Coordinators : DistributedConfig_initialize(Str(CoordinatorAddress(hp)))

SpecRay == InitRay /\ [][NextRay]_vars

-----------------------------------------------------------------------------
\* DoReMi (levanter.doremi) and the resume of levanter.main.train_lm

\* The numbers of data sources handed to estimate_mixture_weights
DomainCounts == {2, 3}

doremi_import_frame ==
    UNCHANGED <<config, num_train_steps, hooks, run_hooks_arg, second_order, opt_calls,
                state, state0, info, result, iter_pos, loader_len, example, log,
                other_vars, process_vars>>

\* Importing levanter.doremi: the return annotation of
\* DomainTaggedDataset.__iter__, Iterator[(T, IntScalar)], is evaluated when
\* the class body runs, and typing.Iterator takes one parameter. The import
\* raises TypeError, so estimate_mixture_weights, with its seek, its loop and
\* its doremi_step, never runs.
doremi_import ==
    /\ pc = "import_doremi"
    /\ Raise("TypeError")
    /\ doremi_import_frame

\* Importing levanter.main.train_lm: line 21 imports OptimizerConfig from
\* levanter.trainer, which defines no such name, so the module does not load
\* and its main, with its seek (lines 201-209), never runs.
train_lm_import ==
    /\ pc = "import_train_lm"
    /\ Raise("ImportError")
    /\ doremi_import_frame

\* A run that is to train up to num_train_steps from the trainer state found
\* (step 0 from scratch, a later step from a checkpoint) over a loader:
\* estimate_mixture_weights of levanter.doremi on k data sources, or the
\* main of levanter.main.train_lm. Both begin with the import of their module.
InitDoremi ==
    /\ pc \in {"import_doremi", "import_train_lm"}
    /\ err = ""
    /\ config = SingleDevice
    /\ num_train_steps \in TrainStepChoices
    /\ hooks \in {<<>>, DefaultHooks}
    /\ run_hooks_arg = TRUE
    /\ second_order = FALSE
    /\ opt_calls = <<>>
    /\ \E s \in 0..(MaxStart + 1) : state = StateAt(s, second_order, AllTrainable)
    /\ state0 = state
    /\ info = Unbound
    /\ result = Unbound
    /\ iter_pos = 0
    /\ example = 0
    /\ log = <<>>
    /\ loader_len \in {ShortLoader, MaxTrainSteps}
    /\ NoInitialState
    /\ NoMicrobatch
    /\ IF pc = "import_train_lm"
       THEN NoMixture
       ELSE \E k \in DomainCounts : doremi = [k |-> k]

NextDoremi ==
    \/ doremi_import
    \/ train_lm_import

SpecDoremi == InitDoremi /\ [][NextDoremi]_vars

-----------------------------------------------------------------------------
\* Reading the event log

\* The elements of a finite set of integers, in increasing order.
RECURSIVE SortedSeq(_)
SortedSeq(S) ==
    IF S = {} THEN <<>>
    ELSE LET m == CHOOSE x \in S : \A y \in S : x <= y
         IN  <<m>> \o SortedSeq(S \ {m})

IsHookOf(e, n, forced) == e.ev = "hook" /\ e.step = n /\ e.force = forced
\* The hooks invoked on completed step n (in the loop, or in the forced run),
\* as the sequence of their positions in the registry, in invocation order.
HookLog(n, forced) ==
    LET evs == SelectSeq(log, LAMBDA e : IsHookOf(e, n, forced))
    IN  [i \in 1..Len(evs) |-> evs[i].hook]

Positions(kind) == {i \in 1..Len(log) : log[i].ev = kind}
Yielded == LET ys == SelectSeq(log, LAMBDA e : e.ev = "yield")
           IN  [i \in 1..Len(ys) |-> ys[i].step]
StepsRun == 0..(MaxTrainSteps + MaxStart)

\* The loop's hook run for completed step n is over.
LoopHooksDone(n) ==
    /\ run_hooks_arg
    /\ \/ \E i \in Positions("yield") : log[i].step = n
       \/ pc = "yield" /\ InfoStep(info) = n

\* The calls of run_hooks on completed step n, as positions in the log.
PassOf(n, forced) ==
    {i \in Positions("run_hooks") : log[i].step = n /\ log[i].force = forced}

\* Of the first m hooks of the registry, those a call of run_hooks at
\* position p of the log has to invoke: the ones whose period divides the
\* step, or all of them in a forced run.
Due(p, m) ==
    SortedSeq({k \in 1..m : log[p].force \/ log[p].step % hooks[k] = 0})

\* The position after the hooks invoked by the call at position p.
RunEnd(p) ==
    CHOOSE q \in (p + 1)..(Len(log) + 1) :
        /\ q = Len(log) + 1 \/ log[q].ev # "hook"
        /\ \A r \in (p + 1)..(q - 1) : log[r].ev = "hook"

\* The lengths the registry may have had when the walk of the call at
\* position p ended: from its length at the call to its length now, such
\* that the call invoked exactly the due hooks among that many, in order.
WalkedTo(p) ==
    {m \in log[p].hook..Len(hooks) :
        /\ RunEnd(p) - p - 1 = Len(Due(p, m))
        /\ \A k \in 1..Len(Due(p, m)) :
            log[p + k] = Event("hook", log[p].step, Due(p, m)[k], log[p].force)}

\* C1: run_hooks invokes the registered hooks in registration order, and
\* invokes a hook exactly when force is true or the completed step is
\* divisible by the hook's period; no other hook is invoked. The registered
\* hooks are those in the registry at the call and those invoked hooks
\* register before the walk ends.
C1_HooksFireByPeriod ==
    LET calls == Positions("run_hooks")
    IN  /\ \A p \in calls :
            /\ log[1].hook <= log[p].hook /\ log[p].hook <= Len(hooks)
            /\ WalkedTo(p) # {}
            /\ (\E r \in (p + 1)..(RunEnd(p) - 1) : log[r].hook > log[p].hook)
                    => log[p + 1].hook <= log[p].hook
            /\ \A q \in calls :
                (log[q].step = log[p].step /\ log[q].force = log[p].force) => q = p
        /\ \A i \in Positions("hook") : log[i - 1].ev \in {"hook", "run_hooks"}
        /\ {log[p].step : p \in {q \in calls : ~log[q].force}} =
                IF run_hooks_arg
                THEN {log[i].step : i \in Positions("yield")}
                        \cup (IF pc = "yield" THEN {InfoStep(info)} ELSE {})
                ELSE {}
        /\ {log[p].step : p \in {q \in calls : log[q].force}} =
                IF pc = "done" /\ run_hooks_arg THEN {InfoStep(result)} ELSE {}

\* A hook run in which a later hook fires and an earlier one is skipped.
C1_Witness ==
    /\ pc = "yield"
    /\ Len(hooks) = 3
    /\ hooks[1] = 5 /\ hooks[2] = 1 /\ hooks[3] = 1
    /\ InfoStep(info) = 1
    /\ HookLog(1, FALSE) = <<2, 3>>

\* A hook registered during the hook run of step 0 is invoked by that run.
C1_WitnessLate ==
    /\ pc = "yield"
    /\ hooks = <<1, 1>>
    /\ log[1].hook = 1
    /\ InfoStep(info) = 0
    /\ \E p \in PassOf(0, FALSE) : log[p].hook = 1
    /\ HookLog(0, FALSE) = <<1, 2>>

\* C2: from a state with step s0 < num_train_steps and a loader with enough
\* batches, training_steps yields the completed steps s0 .. num_train_steps-1
\* in order, one batch pulled per yield, and then ends.
C2_YieldsEveryStep ==
    LET s0 == state0.step
        n == num_train_steps - s0
    IN  (pc # "setup" /\ s0 < num_train_steps /\ loader_len >= n) =>
            /\ pc # "error"
            /\ Len(Yielded) <= n
            /\ \A i \in 1..Len(Yielded) : Yielded[i] = s0 + i - 1
            /\ iter_pos - Len(Yielded) \in {0, 1}
            /\ pc \in {"after_loop", "done"} => Len(Yielded) = n /\ iter_pos = n

\* C3: steps do not overlap: the batch of a step is pulled, the step trained,
\* its hooks run and its StepInfo yielded, in that order, before the batch of
\* the next step is pulled; a StepInfo is yielded only after all of its hooks ran.
C3_HooksBeforeNextStep ==
    /\ LET H == Positions("hook")
           B == Positions("batch")
           T == Positions("train_step")
           Y == Positions("yield")
       IN  /\ \A i \in H : \A j \in B \cup T : log[j].step = log[i].step + 1 => i < j
           /\ \A i \in H : \A j \in Y :
                (~log[i].force /\ log[j].step = log[i].step) => i < j
           /\ \A i \in B : \A j \in T : log[j].step = log[i].step => i < j
           /\ \A i \in T : \A j \in H \cup Y : log[j].step = log[i].step => i < j
           /\ \A i \in Y : \A j \in B : log[j].step = log[i].step + 1 => i < j
           /\ \A S \in {B, T, Y} : \A i, j \in S : i < j => log[i].step < log[j].step
    /\ \A j \in Positions("yield") :
        run_hooks_arg =>
            \E p \in PassOf(log[j].step, FALSE) :
                /\ p < j
                /\ RunEnd(p) <= j
                /\ WalkedTo(p) # {}

\* A second step has begun after a step whose hooks fired.
C3_Witness ==
    /\ run_hooks_arg
    /\ Len(hooks) >= 2
    /\ \E i, j \in 1..Len(log) :
        /\ log[i].ev = "hook" /\ log[j].ev = "train_step"
        /\ log[j].step = log[i].step + 1

\* C4: when at least one step runs and hooks are enabled, train drains
\* training_steps, then invokes every registered hook once more on the final
\* StepInfo whatever its period, and returns that StepInfo, whose completed
\* step is num_train_steps - 1; with run_hooks = False no hook is ever invoked.
C4_TrainForcesHooksAtEnd ==
    /\ (pc = "done" /\ run_hooks_arg) =>
        /\ Positions("train_step") # {}
        /\ result = info /\ result.bound /\ result.state = state
        /\ InfoStep(result) = num_train_steps - 1
        /\ \E last \in PassOf(num_train_steps - 1, TRUE) :
            /\ log[1].hook <= log[last].hook
            /\ \E m \in log[last].hook..Len(hooks) :
                /\ Len(log) = last + m
                /\ \A k \in 1..m :
                    log[last + k] = Event("hook", num_train_steps - 1, k, TRUE)
            /\ \A i \in 1..(last - 1) : ~log[i].force
            /\ log[last - 1] = Event("yield", num_train_steps - 1, 0, FALSE)
        /\ Len(Yielded) = Cardinality(Positions("train_step"))
    /\ pc # "done" => \A i \in 1..Len(log) : ~log[i].force
    /\ (pc # "setup" /\ ~run_hooks_arg) => Positions("hook") = {}
    /\ (pc = "done" /\ ~run_hooks_arg) =>
        /\ result = info /\ result.bound
        /\ InfoStep(result) = num_train_steps - 1

\* train returned after several steps, with hooks that the loop skipped on the
\* final step.
C4_Witness ==
    /\ pc = "done" /\ run_hooks_arg
    /\ Len(hooks) = 3 /\ hooks[1] = StepsPerEval /\ hooks[2] = 5
    /\ num_train_steps = 3
    /\ HookLog(2, FALSE) = <<3>>
    /\ HookLog(2, TRUE) = <<1, 2, 3>>

\* A hook registered by a hook of the forced run is invoked by that run.
C4_WitnessLate ==
    /\ pc = "done" /\ run_hooks_arg
    /\ hooks = <<1, 1>>
    /\ num_train_steps = 1
    /\ HookLog(0, FALSE) = <<1>>
    /\ \E p \in PassOf(0, TRUE) : log[p].hook = 1
    /\ HookLog(0, TRUE) = <<1, 2>>

C4_WitnessNoHooks ==
    pc = "done" /\ ~run_hooks_arg /\ Len(hooks) = 3

TenStepRun ==
    /\ pc # "setup"
    /\ num_train_steps = 10 /\ state0.step = 0
    /\ run_hooks_arg
    /\ log[1].hook = 3
    /\ Len(hooks) >= 3 /\ SubSeq(hooks, 1, 3) = <<1, 5, StepsPerEval>>

\* C5 as stated: in a 10-step run from step 0 with hooks of periods 1, 5 and
\* 1000, the period-1000 hook is never invoked by the loop and is invoked
\* exactly once overall, by the forced hook run at the end of train.
C5_Original ==
    TenStepRun =>
        /\ \A i \in Positions("hook") : log[i].hook = 3 => log[i].force
        /\ pc = "done" => Cardinality({i \in Positions("hook") : log[i].hook = 3}) = 1

\* C5, amended: in a 10-step run from step 0 with hooks of periods 1, 5 and
\* 1000, the loop invokes the period-1000 hook exactly once, on completed
\* step 0 (0 is divisible by 1000), and the forced hook run at the end of
\* train invokes it once more, after the last yield: twice overall.
C5_Period1000FiresAtStepZeroAndAtEnd ==
    TenStepRun =>
        /\ \A i \in Positions("hook") :
            (log[i].hook = 3 /\ ~log[i].force) => log[i].step = 0
        /\ Cardinality({i \in Positions("hook") : log[i].hook = 3 /\ ~log[i].force})
            = IF LoopHooksDone(0) THEN 1 ELSE 0
        /\ Cardinality({i \in Positions("hook") : log[i].hook = 3 /\ log[i].force})
            = IF pc = "done" THEN 1 ELSE 0
        /\ \A i \in Positions("hook") : \A j \in Positions("yield") :
            (log[i].hook = 3 /\ log[i].force) => j < i

C5_Witness ==
    /\ TenStepRun /\ pc = "done"
    /\ Len(Yielded) = 10
    /\ HookLog(9, TRUE) = <<1, 2, 3>>
    /\ HookLog(0, FALSE) = <<1, 2, 3>>
    /\ HookLog(5, FALSE) = <<1, 2>>

-----------------------------------------------------------------------------
\* One training step

\* The optimizer state holds entries for trainable leaves only.
OptStateOnTrainables(st) ==
    \A l \in Leaves :
        ~st.is_trainable[l] => (~st.opt_state.mu[l].some /\ ~st.opt_state.h[l].some)

\* What one step may change: the step counter by one, the key by a split, the
\* trainable leaves by the optimizer's update.
StepFrame(pre, post, batch) ==
    /\ post.step = pre.step + 1
    /\ post.training_key = split(pre.training_key)[2]
    /\ post.is_trainable = pre.is_trainable
    /\ \A l \in Leaves :
        post.model[l] =
            IF pre.is_trainable[l]
            THEN Some(pre.model[l].v - value_and_grad(pre.model, batch)[l].v)
            ELSE pre.model[l]

\* Every parameter tree the optimizer was handed in the last step holds
\* trainable leaves only.
CalledOnTrainables(st) ==
    \A k \in 1..Len(opt_calls) : \A l \in Leaves :
        opt_calls[k].params[l].some => st.is_trainable[l]

\* C6: a training step raises the step counter by one, replaces training_key
\* by the carried half of a split and updates the trainable leaves; it leaves
\* is_trainable and every non-trainable leaf alone, so each non-trainable leaf
\* keeps its initial value, and opt_state is only ever updated against the
\* trainable partition.
C6_StepFrame ==
    /\ pc \in {"run_hooks", "yield"} =>
        /\ StepFrame(state, info.state, example)
        /\ OptStateOnTrainables(info.state)
    /\ state.is_trainable = state0.is_trainable
    /\ \A l \in Leaves : ~state.is_trainable[l] => state.model[l] = state0.model[l]
    /\ OptStateOnTrainables(state)
    /\ CalledOnTrainables(state)

-----------------------------------------------------------------------------
\* initial_state

InitialStateDone == pc = "done" /\ log # <<>> /\ log[Len(log)].ev = "init"
BadModelArgs == args.model_given = args.model_init_given
TrainerCheckpointMissing == ~store.trainer.present
FullyInitialized(st) ==
    /\ \A l \in Leaves : st.model[l].some
    /\ OptStateOnTrainables(st)
    /\ \A l \in Leaves : st.is_trainable[l] => st.opt_state.mu[l].some
    /\ st.is_trainable = args.is_trainable

\* C7: initial_state requires exactly one of model and model_init; with both
\* or neither it fails with ValueError before any checkpoint load or
\* initialization is attempted, and no state is produced.
C7_ExactlyOneOfModelAndModelInit ==
    (BadModelArgs /\ pc # "start") =>
        /\ pc = "error"
        /\ err = "ValueError"
        /\ log = <<>>
        /\ partial = NoPartial

C7_Witness ==
    /\ pc = "error"
    /\ ~args.model_given /\ ~args.model_init_given
    /\ store.trainer.present

\* The load of a required trainer-state checkpoint that is missing has failed
RequiredCheckpointMissing ==
    /\ pc = "error" /\ err = "FileNotFoundError"
    /\ log = <<Event("load_state", 0, 0, FALSE)>>

\* initial_state has returned a fully initialized state at step 0 from the
\* strategy after the trainer-state checkpoint: the model of initialize_from
\* on the trainable leaves when configured, otherwise model_init alone.
ReturnedFromNextStrategy ==
    /\ InitialStateDone
    /\ state.step = 0
    /\ FullyInitialized(state)
    /\ state.training_key = args.training_key
    /\ \A l \in Leaves :
          state.model[l] =
              IF args.initialize_from /\ args.is_trainable[l]
              THEN store.model.model[l]
              ELSE model_init(args.seed)[l]
    /\ (Positions("load_model") # {}) = args.initialize_from

\* C8, as claimed: a missing trainer-state checkpoint is fatal exactly when
\* load_checkpoint = True; with load_checkpoint = None the not-found error is
\* absorbed and the call returns a fully initialized state at step 0, from
\* initialize_from if configured, otherwise from scratch.
C8_Original ==
    (~BadModelArgs /\ TrainerCheckpointMissing /\ pc \in {"done", "error"}) =>
        /\ args.load_checkpoint = "True" => RequiredCheckpointMissing
        /\ args.load_checkpoint = "None" => ReturnedFromNextStrategy

\* C8, amended: a missing trainer-state checkpoint is fatal when
\* load_checkpoint = True: the not-found error propagates and nothing is
\* initialized. With load_checkpoint = None the error is absorbed and the next
\* strategy runs. Without initialize_from, or with its model checkpoint in
\* place, the call returns a fully initialized state at step 0; with
\* initialize_from configured and its model checkpoint missing as well, the
\* not-found error of that load propagates and no state is returned.
C8_MissingCheckpointFatalIffRequired ==
    (~BadModelArgs /\ TrainerCheckpointMissing /\ pc \in {"load_model", "done", "error"}) =>
        /\ args.load_checkpoint = "True" => RequiredCheckpointMissing
        /\ args.load_checkpoint = "None" =>
              /\ partial.kind = "none"
              /\ pc = "error" =>
                    /\ err = "FileNotFoundError"
                    /\ args.initialize_from /\ ~store.model.present
                    /\ log = <<Event("load_state", 0, 0, FALSE), Event("load_model", 0, 0, FALSE)>>
              /\ pc = "done" =>
                    /\ ~(args.initialize_from /\ ~store.model.present)
                    /\ ReturnedFromNextStrategy

C8_Witness ==
    /\ TrainerCheckpointMissing
    /\ args.load_checkpoint = "None"
    /\ args.initialize_from
    /\ InitialStateDone
    /\ \E l \in Leaves : ~args.is_trainable[l]
    /\ \E l \in Leaves : args.is_trainable[l]

C8_WitnessFatal ==
    /\ TrainerCheckpointMissing
    /\ args.load_checkpoint = "True"
    /\ pc = "error"
    /\ ~BadModelArgs

\* C9: when initial_state loads a checkpoint saved at step N, the returned
\* state has step N, and its trainable model leaves and optimizer state are
\* the saved ones; every non-trainable leaf takes the fresh initializer's value.
C9_SaveLoadRoundTrip ==
    (InitialStateDone /\ store.trainer.present /\ args.load_checkpoint # "False") =>
        \E n \in 0..MaxSaveStep :
            LET saved == trained_state(n, second_order, args.is_trainable)
            IN  /\ store.trainer.st.step = n
                /\ state.step = n
                /\ state.opt_state = saved.opt_state
                /\ \A l \in Leaves :
                      /\ args.is_trainable[l] => state.model[l] = saved.model[l]
                      /\ ~args.is_trainable[l] =>
                            state.model[l] = model_init(args.seed)[l]

\* A checkpoint saved after a step of a second-order optimizer on a model
\* with a frozen leaf has been loaded
C9_Witness ==
    /\ InitialStateDone
    /\ store.trainer.present
    /\ args.load_checkpoint = "None"
    /\ store.trainer.st.step = MaxSaveStep
    /\ state.step = MaxSaveStep
    /\ second_order
    /\ \E l \in Leaves : ~args.is_trainable[l]
    /\ \E l \in Leaves : args.is_trainable[l] /\ state.model[l] # model_init(args.seed)[l]

-----------------------------------------------------------------------------
\* microbatched

MicrobatchedDone == pc = "done" /\ mb.i = mb.num_micro_steps /\ mb.i > 0

\* C10: whenever B % (d*p) = 0 the wrapped function returns; with MEAN its
\* result equals the function called once on the full batch, and with SUM it
\* is the sum of the per-microbatch results, undivided.
C10_MeanEqualsFullBatch ==
    /\ (pc # "start" /\ mb.d > 0 /\ mb.p > 0 /\ mb.B % (mb.d * mb.p) = 0) => pc # "error"
    /\ MicrobatchedDone =>
        LET m == mb.d * mb.p
            n == mb.B \div m
            full == fn(mb.batch)
        IN  /\ mb.B % m = 0
            /\ Len(log) = n
            /\ mb.reduce = "MEAN" =>
                  /\ RatEq(mb.acc.loss, full.loss)
                  /\ RatEq(mb.acc.grad, full.grad)
            /\ mb.reduce = "SUM" =>
                  /\ RatEq(mb.acc.loss, Rat(SumSeq(mb.batch), m))
                  /\ RatEq(mb.acc.grad, Rat(SumSeq(Squares(mb.batch)), m))

C10_Witness ==
    /\ MicrobatchedDone
    /\ mb.reduce = "MEAN"
    /\ mb.num_micro_steps = 2
    /\ mb.microbatch_size = 2
    /\ mb.d = 2
    /\ mb.batch[1] # mb.batch[3]
    /\ mb.acc.loss.num > 0

C10_WitnessSum ==
    /\ MicrobatchedDone
    /\ mb.reduce = "SUM"
    /\ mb.num_micro_steps = 2
    /\ mb.microbatch_size = 2
    /\ ~RatEq(mb.acc.loss, fn(mb.batch).loss)

\* C11: when B is not divisible by m = d*p (p >= 0), microbatched fails at
\* wrap time: the wrapped function is never invoked and wrapped_fn, which
\* makes the accumulator, is never entered.
C11_IndivisibleFailsAtWrap ==
    (/\ pc # "start"
     /\ mb.d > 0 /\ mb.p >= 0
     /\ (mb.d * mb.p = 0 \/ mb.B % (mb.d * mb.p) # 0)) =>
        /\ pc = "error"
        /\ err = IF mb.d * mb.p = 0 THEN "ZeroDivisionError" ELSE "AssertionError"
        /\ log = <<>>
        /\ mb.calls = <<>>
        /\ mb.keys = <<>> /\ mb.micro = <<>> /\ mb.i = 0

C11_Witness ==
    /\ pc = "error"
    /\ mb.B = 3 /\ mb.d = 1 /\ mb.p = 2

C11_WitnessZero ==
    /\ pc = "error"
    /\ mb.d > 0 /\ mb.p = 0

\* The inputs that have no batch axis: a NamedArray without it, a scalar, and
\* an unnamed array whose leading axis is not of the batch's size.
Divides == mb.d > 0 /\ mb.p > 0 /\ mb.B % (mb.d * mb.p) = 0
Unbatched(x) == x.kind \in {"named", "scalar"} \/ (x.kind = "ndarray" /\ Len(x.xs) # mb.B)
Batched(x) == x.kind = "named_batch" \/ (x.kind = "ndarray" /\ Len(x.xs) = mb.B)
Returned == pc \in {"done", "error"}

\* The contiguous examples of microbatch i, of m examples, in xs
ExamplesOf(xs, i, m) == [k \in 1..m |-> xs[(i - 1) * m + k]]

\* What C12 says of the calls made and of the positional inputs, given the
\* inputs that pass unchanged.
CallsAsSplit(unchanged) ==
    LET m == mb.d * mb.p
        n == mb.B \div m
    IN  /\ pc = "done"
        /\ Len(mb.calls) = n
        /\ \A i \in 1..n :
              /\ log[i].step = i
              /\ mb.calls[i].microbatch = ExamplesOf(mb.batch, i, m)
              /\ unchanged => mb.calls[i].input = mb.input.xs
              /\ mb.input.kind = "ndarray" /\ ~unchanged =>
                    mb.calls[i].input = ExamplesOf(mb.input.xs, i, m)
              /\ mb.calls[i].key =
                    IF mb.key.some THEN Some(split_n(mb.key.v, n)[i]) ELSE NoneV
        /\ \A j \in 1..mb.B :
              Cardinality({i \in 1..n : \E k \in 1..m : mb.calls[i].microbatch[k] = j}) = 1

\* A batched keyword input reaches invocation i as the examples of microbatch i
KeywordAsSplit ==
    \A i \in 1..Len(mb.calls) :
        mb.calls[i].kwinput = ExamplesOf(mb.kwinput.xs, i, mb.d * mb.p)

\* A keyword input reaches every invocation as the caller gave it
KeywordUnchanged ==
    \A i \in 1..Len(mb.calls) : mb.calls[i].kwinput = mb.kwinput.xs

C12_OriginalOnPositional ==
    (Returned /\ Divides /\ (Batched(mb.input) \/ mb.input.kind \in {"absent", "named", "scalar"})) =>
        /\ CallsAsSplit(Unbatched(mb.input))
        /\ Batched(mb.kwinput) => KeywordAsSplit
        /\ Unbatched(mb.kwinput) => KeywordUnchanged

C12_WitnessUnnamed ==
    /\ pc = "error" /\ err = "TypeError"
    /\ Divides
    /\ mb.input.kind = "ndarray"

\* A gradient computation has run: a step was trained, or the step failed in
\* the microbatch accumulator.
StepAttempted == Positions("train_step") # {} \/ (pc = "error" /\ err = "AssertionError")

\* C13: on a validated configuration the gradient computation of a train step
\* runs the accumulator with microbatch size d*p and B / (d*p) microsteps.
C13_TrainerMicrobatchSize ==
    StepAttempted =>
        LET g == compute_gradients_microbatched(config, state.model, example)
        IN  /\ g.err = ""
            /\ g.microbatch_size = config.p * config.d
            /\ g.num_micro_steps = config.B \div (config.p * config.d)

-----------------------------------------------------------------------------
\* The SLURM bootstrap

\* The node list an environment offers: the first of the three variables set
FirstSetNodeList(e) ==
    IF e.SLURM_STEP_NODELIST.some THEN e.SLURM_STEP_NODELIST
    ELSE IF e.SLURM_JOB_NODELIST.some THEN e.SLURM_JOB_NODELIST
    ELSE e.SLURM_NODELIST

\* The first hostname of the node lists of the model
FirstHost(node_list) == IF node_list \in CoordinatorNodeLists THEN Node \o Pad3(1) ELSE Host2

CoordinatorReturned == pc = "done" /\ out.some

\* C14: get_coordinator_address returns host:port, the port being
\* job_id mod 4096 + 61440 (so within 61440..65535) and the host the first
\* hostname of the first node-list variable that is set: node001 for
\* 'node001', 'node001,host2', 'node[001-NNN],host2', 'node[001,NNN-MMM],host2'.
C14_CoordinatorAddress ==
    CoordinatorReturned =>
        \E t \in JobIdTexts :
            /\ environ.SLURM_JOB_ID.v = t[1]
            /\ (t[2] % 4096) + 61440 \in 61440..65535
            /\ out.v = FirstHost(FirstSetNodeList(environ).v) \o <<":">>
                         \o str_of((t[2] % 4096) + 61440)

\* 'node[001,007-015],host2' in the step's variable, another host in the last
\* one, job 123456: the address is node001:62016.
C14_Witness ==
    /\ CoordinatorReturned
    /\ environ.SLURM_JOB_ID.v = <<"1", "2", "3", "4", "5", "6">>
    /\ environ.SLURM_STEP_NODELIST.v =
         Node \o <<"[", "0", "0", "1", ",", "0", "0", "7", "-", "0", "1", "5", "]", ",">> \o Host2
    /\ environ.SLURM_NODELIST.v = Host2
    /\ out.v = Node \o <<"0", "0", "1", ":", "6", "2", "0", "1", "6">>

\* job id '-1': the port is 65535
C14_WitnessSignedJobId ==
    /\ CoordinatorReturned
    /\ environ.SLURM_JOB_ID.v = <<"-", "1">>
    /\ environ.SLURM_STEP_NODELIST.v = Node \o <<"0", "0", "1">>
    /\ out.v = Node \o <<"0", "0", "1", ":", "6", "5", "5", "3", "5">>

\* 'node[001-015],host2' found in the job's variable when the step's is unset
C14_WitnessJobNodeList ==
    /\ CoordinatorReturned
    /\ ~environ.SLURM_STEP_NODELIST.some
    /\ environ.SLURM_JOB_NODELIST.v = Host2
    /\ environ.SLURM_NODELIST.some
    /\ environ.SLURM_JOB_ID.v = <<"4", "0", "9", "5">>
    /\ out.v = Host2 \o <<":", "6", "5", "5", "3", "5">>

\* get_local_device_ids_for_process has run past the unrolling of the task
\* counts (every environment of the model that sets them names the node too)
DevicesCalled == out.unrolled_tasks_per_node # <<>>

NodeListIs(node_list) == FirstSetNodeList(environ) = Str(node_list)

\* node<a>, ..., node<b>, each number padded with zeros to width w
RangeNames(r, w) == [k \in 1..(r[2] - r[1] + 1) |-> Node \o WidthPad(r[1] + k - 1, w)]

\* C15: a bracketed expression expands to the flat ordered list of hostnames:
\* a range a-b gives a, a+1, ..., b, a single number is kept, and the numbers
\* of a range are zero-padded to the width of its start.
C15_BracketExpansion ==
    DevicesCalled =>
        \A r \in Ranges, w \in Widths :
            /\ NodeListIs(RangeList(r, w)) => out.node_list = RangeNames(r, w)
            /\ \A c \in Singles :
                  NodeListIs(RangeAndSingleList(r, c, w)) =>
                      out.node_list = Append(RangeNames(r, w), Node \o WidthPad(c, w))

\* 'node[001-003,007]' gives node001, node002, node003, node007
C15_Witness ==
    /\ DevicesCalled
    /\ NodeListIs(Node \o <<"[", "0", "0", "1", "-", "0", "0", "3", ",", "0", "0", "7", "]">>)
    /\ out.node_list = <<Node \o <<"0", "0", "1">>, Node \o <<"0", "0", "2">>,
                         Node \o <<"0", "0", "3">>, Node \o <<"0", "0", "7">>>>

\* 'node[9-11]' gives node9, node10, node11: the start has width one
C15_WitnessWidth ==
    /\ DevicesCalled
    /\ NodeListIs(Node \o <<"[", "9", "-", "1", "1", "]">>)
    /\ out.node_list = <<Node \o <<"9">>, Node \o <<"1", "0">>, Node \o <<"1", "1">>>>

\* C16: a plain comma-separated node list expands to one entry per hostname,
\* in order, none containing a comma; a process on the second host finds its
\* node at index 1.
C16_PlainListExpansion ==
    DevicesCalled =>
        \A names \in PlainLists :
            NodeListIs(PlainList(names)) =>
                /\ out.node_list = names
                /\ \A i \in 1..Len(out.node_list) :
                      \A j \in 1..Len(out.node_list[i]) : out.node_list[i][j] # ","
                /\ (Len(names) = 2 /\ environ.SLURMD_NODENAME.v = names[2]) =>
                      index_of(out.node_list, environ.SLURMD_NODENAME.v) = 1

\* The repetitions a token stands for: K for N(xK), one for a bare N
Reps(t) == IF t[2] = 0 THEN 1 ELSE t[2]

RECURSIVE SumReps(_)
SumReps(ts) == IF ts = <<>> THEN 0 ELSE Reps(Head(ts)) + SumReps(Tail(ts))

\* One integer per node, in the order of the tokens
RECURSIVE Unrolled(_)
Unrolled(ts) ==
    IF ts = <<>> THEN <<>> ELSE [k \in 1..Reps(Head(ts)) |-> Head(ts)[1]] \o Unrolled(Tail(ts))

\* C17: the tasks-per-node string unrolls to one integer per node, in order:
\* N(xK) gives K times N, a bare N gives one N, and the length of the result is
\* the sum of the repetition counts.
C17_TasksPerNodeUnrolled ==
    DevicesCalled =>
        \A ts \in TokenLists :
            environ.SLURM_STEP_TASKS_PER_NODE.v = TasksPerNode(ts) =>
                /\ out.unrolled_tasks_per_node = Unrolled(ts)
                /\ Len(out.unrolled_tasks_per_node) = SumReps(ts)

\* '1(x2),3,4(x3)' unrolls to 1, 1, 3, 4, 4, 4
C17_Witness ==
    /\ DevicesCalled
    /\ environ.SLURM_STEP_TASKS_PER_NODE.v =
         <<"1", "(", "x", "2", ")", ",", "3", ",", "4", "(", "x", "3", ")">>
    /\ out.unrolled_tasks_per_node = <<1, 1, 3, 4, 4, 4>>

\* The visible device ids of an environment of the model
VisibleList(e) ==
    IF ~e.CUDA_VISIBLE_DEVICES.some THEN <<0, 1, 2, 3>>
    ELSE IF e.CUDA_VISIBLE_DEVICES.v = <<"4", ",", "5">> THEN <<4, 5>>
    ELSE IF e.CUDA_VISIBLE_DEVICES.v = <<"0", ",", "1", ",", "2">> THEN <<0, 1, 2>>
    ELSE <<0, 1, 2, 3>>

\* The k-th of T equal contiguous blocks of the device list
Block(devices, T, k) ==
    [j \in 1..(Len(devices) \div T) |-> devices[k * (Len(devices) \div T) + j]]

\* What the process with local id k of this node is given
SiblingBlock(k) ==
    local_device_ids([environ EXCEPT !.SLURM_LOCALID = Str(str_of(k))]).v

Ids(block) == {block[j] : j \in 1..Len(block)}

RECURSIVE SiblingBlocks(_, _)
SiblingBlocks(k, T) == IF k >= T THEN <<>> ELSE SiblingBlock(k) \o SiblingBlocks(k + 1, T)

DeviceBlocks(devices, T, k) ==
    IF Len(devices) % T # 0
    THEN pc = "error" /\ err = "ValueError" /\ ~out.some
    ELSE k < T =>
            /\ pc = "devices" /\ out.some
            /\ out.v = Block(devices, T, k)
            /\ \A k1 \in 0..(T - 1) : \A k2 \in 0..(T - 1) :
                  k1 # k2 => Ids(SiblingBlock(k1)) \cap Ids(SiblingBlock(k2)) = {}
            /\ SiblingBlocks(0, T) = devices

\* C18: for a node at position i of the expanded list with T >= 1 tasks and V
\* visible devices, the call fails when T does not divide V; otherwise the
\* process with local id k < T gets the V/T device ids from index k*V/T on, and
\* the blocks of the T processes are pairwise disjoint and cover the list.
C18_ContiguousDeviceBlocks ==
    DevicesCalled =>
        \A i \in 1..Len(out.node_list) :
            (/\ out.node_list[i] = environ.SLURMD_NODENAME.v
             /\ i <= Len(out.unrolled_tasks_per_node)
             /\ out.unrolled_tasks_per_node[i] >= 1) =>
                DeviceBlocks(VisibleList(environ), out.unrolled_tasks_per_node[i],
                             int(environ.SLURM_LOCALID.v))

\* Four devices, two tasks on the third node, local id 1: devices 2 and 3
C18_Witness ==
    /\ pc = "devices"
    /\ out.node_list = <<Node \o Pad3(1), Node \o Pad3(2), Node \o Pad3(3)>>
    /\ environ.SLURMD_NODENAME.v = Node \o Pad3(3)
    /\ out.unrolled_tasks_per_node = <<4, 4, 2>>
    /\ ~environ.CUDA_VISIBLE_DEVICES.some
    /\ environ.SLURM_LOCALID.v = <<"1">>
    /\ out.v = <<2, 3>>

\* Three devices and two tasks: the call fails
C18_WitnessIndivisible ==
    /\ pc = "error" /\ err = "ValueError"
    /\ out.node_list = <<Node \o Pad3(1), Node \o Pad3(2), Node \o Pad3(3)>>
    /\ environ.SLURMD_NODENAME.v = Node \o Pad3(3)
    /\ out.unrolled_tasks_per_node = <<4, 4, 2>>
    /\ environ.CUDA_VISIBLE_DEVICES.v = <<"0", ",", "1", ",", "2">>

-----------------------------------------------------------------------------
\* The actor cluster

\* The call ran part of the startup routine: a start command or ray.init
RanStartup(c) ==
    \E j \in 1..Len(c.ran) : c.ran[j].kind \in {"ray start --head", "ray start", "ray.init"}

OnlyWarned(c) == c.raised = "" /\ c.ran = <<Ran("logger.warning", <<>>, 0)>>

\* C19: over any sequence of calls of auto_ray_cluster in a process, failed
\* calls included, the startup routine (the start command, ray.init and its
\* exit handler) runs in at most one call, and every call after that one only
\* logs a warning.
C19_StartupAtMostOnce ==
    /\ Cardinality({i \in 1..Len(ray_calls) : RanStartup(ray_calls[i])}) <= 1
    /\ \A i \in 1..Len(ray_calls) :
          (\E j \in 1..(i - 1) : RanStartup(ray_calls[j])) => OnlyWarned(ray_calls[i])

StartCommands(c) ==
    {j \in 1..Len(c.ran) : c.ran[j].kind \in {"ray start --head", "ray start"}}

\* The call ran no start command and went straight to ray.init(address)
Connects(c, address) ==
    /\ StartCommands(c) = {}
    /\ c.ran[1] = Ran("ray.init", address, 0)

\* The call of process process_index ran the start command of its role for
\* address and port, and, unless the command failed, ray.init(address)
StartsAndConnects(c, process_index, address, port) ==
    /\ process_index = 0 =>
          StartCommands(c) = {1} /\ c.ran[1] = Ran("ray start --head", address, port)
    /\ (process_index # 0 /\ c.start_workers) =>
          /\ StartCommands(c) = {1}
          /\ c.ran[1].kind = "ray start" /\ c.ran[1].address = address
    /\ (process_index # 0 /\ ~c.start_workers) => Connects(c, address)
    /\ c.raised # "RuntimeError" =>
          \E j \in 1..Len(c.ran) : c.ran[j] = Ran("ray.init", address, 0)

AddressSelection(c, e) ==
    IF c.address.some THEN Connects(c, c.address.v)
    ELSE IF e.RAY_ADDRESS.some THEN Connects(c, e.RAY_ADDRESS.v)
    ELSE IF ~e.coordinator_address.some THEN Connects(c, Local)
    ELSE \A hp \in Coordinators :
            e.coordinator_address.v = CoordinatorAddress(hp) =>
                StartsAndConnects(c, e.process_index,
                                  hp[1] \o Colon \o str_of(((hp[2] + 240) % 4096) + 61440),
                                  ((hp[2] + 240) % 4096) + 61440)

\* The call found the flag unset: no earlier call returned
FoundUninitialized(i) == \A j \in 1..(i - 1) : ray_calls[j].raised # ""

\* C20: a call of auto_ray_cluster that finds the flag unset connects to the
\* explicit address or to RAY_ADDRESS without a start command; with neither
\* and a coordinator host:port it uses host:((port + 240) mod 4096 + 61440),
\* process 0 running the head start on that port and any other process, with
\* start_workers, the worker start for that address, each then connecting to
\* it; with neither and no coordinator it connects to "local".
C20_ClusterAddress ==
    \A i \in 1..Len(ray_calls) :
        FoundUninitialized(i) =>
            AddressSelection(ray_calls[i],
                             [environ EXCEPT !.coordinator_address = ray_calls[i].coordinator])

\* Process 1, start_workers, coordinator host2:65535: the worker is started
\* for host2:61679 and ray.init connects to it.
C20_Witness ==
    /\ environ.process_index = 1
    /\ ~environ.RAY_ADDRESS.some
    /\ environ.coordinator_address.v = Host2 \o <<":", "6", "5", "5", "3", "5">>
    /\ Len(ray_calls) = 1
    /\ ~ray_calls[1].address.some /\ ray_calls[1].start_workers
    /\ Len(ray_calls[1].ran) = 3
    /\ ray_calls[1].ran[1].kind = "ray start"
    /\ ray_calls[1].ran[1].address = Host2 \o <<":", "6", "1", "6", "7", "9">>
    /\ ray_calls[1].ran[2] = Ran("ray.init", Host2 \o <<":", "6", "1", "6", "7", "9">>, 0)

\* Process 0, coordinator node001:62016: the head is started on port 62256
C20_WitnessHead ==
    /\ environ.process_index = 0
    /\ ~environ.RAY_ADDRESS.some
    /\ environ.coordinator_address.v = Node \o <<"0", "0", "1", ":", "6", "2", "0", "1", "6">>
    /\ Len(ray_calls) = 1
    /\ ~ray_calls[1].address.some
    /\ ray_calls[1].ran[1] =
         Ran("ray start --head", Node \o <<"0", "0", "1", ":", "6", "2", "2", "5", "6">>, 62256)
    /\ ray_calls[1].raised = ""

\* No address, no RAY_ADDRESS, no coordinator: ray.init("local")
C20_WitnessLocal ==
    /\ ~environ.RAY_ADDRESS.some /\ ~environ.coordinator_address.some
    /\ Len(ray_calls) = 1
    /\ ~ray_calls[1].address.some
    /\ ray_calls[1].ran[1] = Ran("ray.init", Local, 0)
    /\ ray_calls[1].raised = ""

\* RAY_ADDRESS set while a coordinator is known: no start command
C20_WitnessEnv ==
    /\ environ.RAY_ADDRESS.some /\ environ.coordinator_address.some
    /\ Len(ray_calls) = 1
    /\ ~ray_calls[1].address.some
    /\ ray_calls[1].ran[1] = Ran("ray.init", environ.RAY_ADDRESS.v, 0)

\* The start command of the call returned a non-zero exit code
StartFailed(c) == c.exit_codes # <<>> /\ c.exit_codes[1] # 0

Registered(c, handler) == \E j \in 1..Len(c.ran) : c.ran[j] = Ran(handler, <<>>, 0)

\* C21: a call whose start command (head or worker) returns a non-zero exit
\* code raises at once: nothing is run after the command, ray.init is not
\* called, the flag stays unset and the RuntimeError reaches the caller.
C21_StartFailureIsFatal ==
    \A i \in 1..Len(ray_calls) :
        StartFailed(ray_calls[i]) =>
            /\ ray_calls[i].raised = "RuntimeError"
            /\ Len(ray_calls[i].ran) = 1
            /\ ray_calls[i].ran[1].kind \in {"ray start --head", "ray start"}
            /\ i = Len(ray_calls) => ~_already_initialized
            /\ i < Len(ray_calls) => ~OnlyWarned(ray_calls[i + 1])

\* The worker start of process 1 fails
C21_Witness ==
    /\ environ.process_index = 1
    /\ Len(ray_calls) = 1
    /\ ray_calls[1].exit_codes = <<1>>
    /\ ray_calls[1].ran[1].kind = "ray start"
    /\ ray_calls[1].raised = "RuntimeError"
    /\ ~_already_initialized

\* The head start of process 0 fails, and the next call starts the head again
C21_WitnessHead ==
    /\ environ.process_index = 0
    /\ Len(ray_calls) = 2
    /\ ray_calls[1].exit_codes = <<1>>
    /\ ray_calls[1].ran[1].kind = "ray start --head"
    /\ ray_calls[2].ran[1].kind = "ray start --head"

\* The call returned after running the startup
StartedUp(c) == c.raised = "" /\ ~OnlyWarned(c)

\* C22: a call that returns after the startup has registered an exit handler
\* for everything it started: the head, the worker, the ray connection.
C22_TeardownForEverythingStarted ==
    \A i \in 1..Len(ray_calls) :
        StartedUp(ray_calls[i]) =>
            /\ ray_calls[i].ran[1].kind = "ray start --head" =>
                  Registered(ray_calls[i], "atexit ray stop")
            /\ ray_calls[i].ran[1].kind = "ray start" =>
                  Registered(ray_calls[i], "atexit ray stop")
            /\ Registered(ray_calls[i], "atexit ray.shutdown")

-----------------------------------------------------------------------------
\* DoReMi

\* The run has ended, by return or by exception
RunEnded == pc \in {"done", "error"}

\* The iterations of the outer loop that pulled a batch
IsBatch(e) == e.ev = "batch"
Iterations == Len(SelectSeq(log, IsBatch))

\* The steps the loop has to run from the state it starts with
StepsToRun == IF num_train_steps > state0.step THEN num_train_steps - state0.step ELSE 0

\* C24: with batches enough, the outer loop of estimate_mixture_weights ends
\* normally after exactly num_train_steps - s0 iterations, each consuming one
\* batch and advancing the step counter read by the loop condition by one.
C24_LoopRunsToNumTrainSteps ==
    (~NoMixture /\ RunEnded /\ loader_len >= state0.step + 1 + StepsToRun) =>
        /\ pc = "done"
        /\ Iterations = StepsToRun
        /\ state.step = state0.step + StepsToRun

\* C25: a run resumed from a state with N > 0 steps completed trains on the
\* batches an uninterrupted run would have trained on from there: batch N
\* first, none skipped and none repeated, so that it ends with the steps
\* N .. num_train_steps - 1 trained and the loader advanced past batch
\* num_train_steps - 1.
C25_ResumeContinuesAtNextBatch ==
    (/\ RunEnded
     /\ state0.step > 0 /\ state0.step < num_train_steps
     /\ loader_len >= num_train_steps) =>
        /\ state.step = num_train_steps
        /\ iter_pos = num_train_steps
        /\ Iterations = num_train_steps - state0.step

-----------------------------------------------------------------------------
\* TrainerConfig._validate_and_set_defaults

\* What jax reports (device_count over all processes, local_device_count of
\* this process) with the fields of the TrainerConfig the validation reads.
DeviceCounts == {<<1, 1>>, <<2, 2>>, <<2, 1>>, <<4, 4>>, <<4, 2>>, <<6, 3>>}
ModelAxisSizes == 0..3
Infer == -1
UnvalidatedConfigs ==
    {[device_count |-> dc[1], local_device_count |-> dc[2], model_axis_size |-> m,
      train_batch_size |-> B, per_device_parallelism |-> p,
      per_device_eval_parallelism |-> e] :
        dc \in DeviceCounts, m \in ModelAxisSizes,
        B \in {Infer} \cup (1..MaxBatch), p \in {Infer} \cup (1..MaxDataAxis),
        e \in {Infer, 1}}

Rejected(c, e, problem) == [err |-> e, problem |-> problem, config |-> c]

\* TrainerConfig.data_axis_size: the assertion, then the quotient. err is
\* the exception the property raises, "" when it returns value.
data_axis_size(c) ==
    IF c.model_axis_size = 0 THEN [err |-> "ZeroDivisionError", value |-> 0]
    ELSE IF mod(c.device_count, c.model_axis_size) # 0
    THEN [err |-> "AssertionError", value |-> 0]
    ELSE [err |-> "", value |-> floordiv(c.device_count, c.model_axis_size)]

\* The last check of _validate_and_set_defaults and the default of
\* per_device_eval_parallelism after it, on the config with its defaults
\* filled in.
validate_batch_size(c) ==
    IF data_axis_size(c).err # ""
    THEN Rejected(c, data_axis_size(c).err, "")
    ELSE IF c.per_device_parallelism * data_axis_size(c).value = 0
    THEN Rejected(c, "ZeroDivisionError", "")
    ELSE IF mod(c.train_batch_size, c.per_device_parallelism * data_axis_size(c).value) # 0
    THEN Rejected(c, "ValueError", "train_batch_size")
    ELSE IF c.per_device_eval_parallelism = Infer
    THEN Rejected([c EXCEPT !.per_device_eval_parallelism = c.per_device_parallelism], "", "")
    ELSE Rejected(c, "", "")

\* if self.per_device_parallelism == -1:
\*     self.per_device_parallelism = self.train_batch_size // self.data_axis_size
infer_parallelism(c) ==
    IF c.per_device_parallelism # Infer THEN Rejected(c, "", "")
    ELSE IF data_axis_size(c).err # "" THEN Rejected(c, data_axis_size(c).err, "")
    ELSE Rejected([c EXCEPT !.per_device_parallelism =
                      floordiv(c.train_batch_size, data_axis_size(c).value)], "", "")

\* if self.train_batch_size == -1:
\*     self.train_batch_size = self.per_device_parallelism * self.data_axis_size
infer_batch_size(c) ==
    IF c.train_batch_size # Infer THEN Rejected(c, "", "")
    ELSE IF data_axis_size(c).err # "" THEN Rejected(c, data_axis_size(c).err, "")
    ELSE Rejected([c EXCEPT !.train_batch_size =
                      c.per_device_parallelism * data_axis_size(c).value], "", "")

\* The two defaults, one after the other
set_defaults(c) ==
    IF infer_parallelism(c).err # "" THEN infer_parallelism(c)
    ELSE infer_batch_size(infer_parallelism(c).config)

\* The checks of _validate_and_set_defaults in the order of the code
_validate_and_set_defaults(c) ==
    IF c.model_axis_size = 0
    THEN Rejected(c, "ZeroDivisionError", "")
    ELSE IF mod(c.device_count, c.model_axis_size) # 0
    THEN Rejected(c, "ValueError", "model_axis_size")
    ELSE IF /\ mod(c.local_device_count, c.model_axis_size) # 0
            /\ mod(c.model_axis_size, c.local_device_count) # 0
    THEN Rejected(c, "ValueError", "local_device_count")
    ELSE IF c.train_batch_size = Infer /\ c.per_device_parallelism = Infer
    THEN Rejected(c, "AssertionError", "")
    ELSE IF set_defaults(c).err # "" THEN set_defaults(c)
    ELSE validate_batch_size(set_defaults(c).config)

\* A call of config._validate_and_set_defaults(): the fields it set stay set
\* also when a later check raises.
validate_call ==
    /\ pc = "validate"
    /\ \E r \in {_validate_and_set_defaults(config)} :
          /\ config' = r.config
          /\ err' = r.err
          /\ log' = <<r.problem>>
          /\ pc' = IF r.err = "" THEN "validated" ELSE "error"
    /\ UNCHANGED <<num_train_steps, hooks, run_hooks_arg, second_order, opt_calls, state, state0,
                   info, result, iter_pos, loader_len, example>>
    /\ UNCHANGED <<other_vars, process_vars>>

InitValidate ==
    /\ NoMixture
    /\ pc = "validate"
    /\ err = ""
    /\ config \in UnvalidatedConfigs
    /\ num_train_steps = 0
    /\ hooks = <<>>
    /\ run_hooks_arg = TRUE
    /\ second_order = FALSE
    /\ opt_calls = <<>>
    /\ state = StateAt(0, FALSE, AllTrainable)
    /\ state0 = state
    /\ info = Unbound
    /\ result = Unbound
    /\ iter_pos = 0
    /\ loader_len = 0
    /\ example = 0
    /\ log = <<>>
    /\ NoInitialState
    /\ NoMicrobatch

SpecValidate == InitValidate /\ [][validate_call]_vars

\* C26: for every device count, model_axis_size, train_batch_size and
\* per_device_parallelism (-1 meaning infer), the validation either raises a
\* ValueError naming model_axis_size not dividing the device count or
\* train_batch_size not divisible by per_device_parallelism * data_axis_size,
\* or returns with per_device_parallelism >= 1 and train_batch_size divisible
\* by per_device_parallelism * data_axis_size; it fails in no other way.
C26_ValidationOutcomes ==
    /\ pc = "error" =>
          /\ err = "ValueError"
          /\ log \in {<<"model_axis_size">>, <<"train_batch_size">>}
    /\ pc = "validated" =>
          /\ config.per_device_parallelism >= 1
          /\ config.train_batch_size
                % (config.per_device_parallelism * data_axis_size(config).value) = 0

-----------------------------------------------------------------------------
\* Trainer.initial_state without a trainer-state checkpoint

IsLoadState(e) == e.ev = "load_state"

\* A finished call of initial_state with load_checkpoint = False, exactly one
\* of model and model_init, and the initialize_from checkpoint in place when
\* one is configured.
FinishedWithoutLoading ==
    /\ pc \in {"done", "error"}
    /\ args.load_checkpoint = "False"
    /\ args.model_given # args.model_init_given
    /\ args.initialize_from => store.model.present

\* C27: with load_checkpoint = False, initial_state does not try to load a
\* trainer-state checkpoint and still returns an initialized state at step 0,
\* whether or not initialize_from is configured.
C27_NoLoadStillInitializes ==
    FinishedWithoutLoading =>
        /\ SelectSeq(log, IsLoadState) = <<>>
        /\ pc = "done"
        /\ state.step = 0

-----------------------------------------------------------------------------
\* Trainer.train on a run that has already finished

\* C28: when train is handed a state whose step counter has reached (or
\* passed) num_train_steps, it pulls no batch, runs no training step and
\* returns normally.
C28_FinishedRunReturns ==
    (pc \in {"done", "error"} /\ state0.step >= num_train_steps) =>
        /\ iter_pos = 0
        /\ state = state0
        /\ pc = "done"

-----------------------------------------------------------------------------
\* The two node-list parsers on one node list

\* One node list of each format: a single host, plain comma lists, bracketed
\* ranges, bracketed lists, a single-element bracket, and bracket groups
\* followed by further hosts.
ParserNodeLists ==
    {Node \o Pad3(1), Host2,
     Node \o Pad3(1) \o Comma \o Host2, Node \o Pad3(1) \o Comma \o Node \o Pad3(2),
     Node \o Bracket(Pad3(1)), Node \o Bracket(Pad3(7))}
      \cup {RangeList(r, 3) : r \in Ranges}
      \cup {Node \o Bracket(Pad3(c) \o Comma \o Pad3(15)) : c \in Singles}
      \cup {RangeList(r, 3) \o Comma \o Host2 : r \in Ranges}
      \cup {Node \o Bracket(Pad3(1) \o Comma \o Dash(Pad3(7), Pad3(15))) \o Comma \o Host2}

ParserEnvirons ==
    {[NoEnviron EXCEPT !.SLURM_JOB_ID = Str(id), !.SLURM_STEP_NODELIST = Str(x)] :
        id \in JobIds, x \in ParserNodeLists}

\* _square_brace_expand(node_list) on the node list get_coordinator_address
\* has just parsed
square_brace_expand_call ==
    /\ pc = "done"
    /\ out.some
    /\ \E r \in {_square_brace_expand(_node_list(environ).v)} :
          IF r.err # ""
          THEN Raise(r.err) /\ UNCHANGED out
          ELSE pc' = "expanded" /\ out' = [out EXCEPT !.node_list = r.v] /\ UNCHANGED err
    /\ slurm_frame

InitParsers ==
    /\ NoMixture
    /\ NoTraining
    /\ NoInitialState
    /\ mb = NoMb
    /\ out = NoOut
    /\ _already_initialized = FALSE
    /\ ray_calls = <<>>
    /\ environ \in ParserEnvirons

NextParsers ==
    \/ get_coordinator_address
    \/ square_brace_expand_call

SpecParsers == InitParsers /\ [][NextParsers]_vars

\* The host of a coordinator address host:port
HostOf(address) == SubSeq(address, 1, find_first(address, {":"}, Len(address)))

\* C29: on every node list, the host get_coordinator_address puts into the
\* coordinator address is the first element of what _square_brace_expand
\* makes of the same node list.
C29_ParsersAgreeOnFirstHost ==
    pc = "expanded" => HostOf(out.v) = out.node_list[1]

-----------------------------------------------------------------------------
\* WandbConfig.init, in levanter.tracker.wandb and in levanter.logging

\* WandbConfig.mode; "None" leaves the choice to wandb.
WandbModes == {"None", "online", "offline", "disabled"}
RunIds == {NoStr, Str(<<"a">>), Str(<<"b">>)}

\* A WandbConfig (mode, id), the run_id argument of init, and what jax
\* reports to the process that calls it.
WandbCalls ==
    {[mode |-> m, id |-> i, run_id |-> r, process_index |-> k, process_count |-> n] :
        m \in WandbModes, i \in RunIds \ {Str(<<"b">>)}, r \in RunIds,
        k \in 0..MaxProcessIndex, n \in 1..(MaxProcessIndex + 1)}

\* levanter.tracker.wandb: if jax.process_index() != 0: mode = self.mode
\* else: mode = "disabled"
tracker_mode(c) == IF c.process_index # 0 THEN c.mode ELSE "disabled"

\* levanter.logging: mode = self.mode; if jax.process_index() != 0: mode = "disabled"
logging_mode(c) == IF c.process_index # 0 THEN "disabled" ELSE c.mode

\* id = self.id; if id is None: id = run_id
wandb_id(c) == IF c.id.some THEN c.id ELSE c.run_id

\* The warning when both ids are set and differ
warns(c) == c.run_id.some /\ c.id.some /\ c.run_id # c.id

\* r = wandb.init(..., id=id, mode=mode, ...) and the check made of it in a
\* multi-process run: assert r.mode == "disabled" on every process but 0.
wandb_run(c, mode) ==
    [called |-> TRUE, mode |-> mode, id |-> wandb_id(c), warned |-> warns(c),
     err |-> IF c.process_count > 1 /\ c.process_index # 0 /\ mode # "disabled"
             THEN "AssertionError" ELSE ""]

NoRun == [called |-> FALSE, mode |-> "None", id |-> NoStr, warned |-> FALSE, err |-> ""]

wandb_frame ==
    UNCHANGED <<train_vars_but_pc_err, store, partial, mb, doremi, environ,
                _already_initialized, ray_calls>>

\* WandbConfig.init of levanter.tracker.wandb
tracker_init ==
    /\ pc = "start"
    /\ ~out.tracker.called
    /\ \E r \in {wandb_run(args, tracker_mode(args))} :
          /\ out' = [out EXCEPT !.tracker = r]
          /\ err' = r.err
    /\ UNCHANGED <<pc, args>>
    /\ wandb_frame

\* WandbConfig.init of levanter.logging
logging_init ==
    /\ pc = "start"
    /\ ~out.logging.called
    /\ \E r \in {wandb_run(args, logging_mode(args))} :
          /\ out' = [out EXCEPT !.logging = r]
          /\ err' = r.err
    /\ UNCHANGED <<pc, args>>
    /\ wandb_frame

InitWandb ==
    /\ NoMixture
    /\ NoTraining
    /\ store = NoStore
    /\ partial = NoPartial
    /\ mb = NoMb
    /\ environ = NoEnviron
    /\ _already_initialized = FALSE
    /\ ray_calls = <<>>
    /\ args \in {c \in WandbCalls : c.process_index < c.process_count}
    /\ out = [tracker |-> NoRun, logging |-> NoRun]

NextWandb ==
    \/ tracker_init
    \/ logging_init

SpecWandb == InitWandb /\ [][NextWandb]_vars

\* What a process may use wandb in: the configured mode on process 0,
\* "disabled" on every other process.
PrimaryOnly(run) ==
    run.called =>
        /\ run.mode = IF args.process_index = 0 THEN args.mode ELSE "disabled"
        /\ run.err = ""

\* C30: WandbConfig.init gives wandb the configured mode on process 0 and
\* mode "disabled" on every other process, so that the assertion made on the
\* other processes holds; the tracker implementation and the older logging
\* implementation do the same.
C30_OnlyPrimaryUsesWandb ==
    /\ PrimaryOnly(out.tracker)
    /\ PrimaryOnly(out.logging)
    /\ (out.tracker.called /\ out.logging.called) => out.tracker = out.logging

====
